---- MODULE Spec2Model ----
(***************************************************************************)
(* A model of the JSON artifact ingestion pipeline of the LITE             *)
(* application: classifier, field filters, raw-text parsers, record        *)
(* normalizer, table provisioner, ingestion orchestrator and the ingestion *)
(* task utilities that keep the audit log and the case rollup.             *)
(*                                                                         *)
(* Python strings are TLA+ strings; Python dicts are sequences of          *)
(* <<key, value>> pairs in insertion order; JSON / Python values are       *)
(* tagged tuples (<<"str", s>>, <<"num", n>>, <<"bool", b>>, <<"null">>,   *)
(* <<"obj", dict>>, <<"list", seq>>, <<"datetime">>).                      *)
(***************************************************************************)
EXTENDS Integers, Sequences, FiniteSets, TLC

\* F applied to v.  An operator argument is evaluated once, a LET definition
\* at each of its uses: a value used more than once is bound with Bind.
Bind(v, F(_)) == F(v)

(***************************************************************************)
(* Python str operations                                                   *)
(***************************************************************************)
CharAt(s, i) == SubSeq(s, i, i)

DropFirst(s, n) == SubSeq(s, n + 1, Len(s))

Whitespace == {" ", "\t", "\n", "\r"}

Contains(s, sub) ==
  \E i \in 1..(Len(s) - Len(sub) + 1) : SubSeq(s, i, i + Len(sub) - 1) = sub

StartsWith(s, p) == Len(s) >= Len(p) /\ SubSeq(s, 1, Len(p)) = p

EndsWith(s, p) == Len(s) >= Len(p) /\ SubSeq(s, Len(s) - Len(p) + 1, Len(s)) = p

RECURSIVE LStrip(_)
LStrip(s) ==
  IF s # "" /\ CharAt(s, 1) \in Whitespace THEN LStrip(DropFirst(s, 1)) ELSE s

RECURSIVE RStripChars(_, _)
RStripChars(s, chars) ==
  IF s # "" /\ CharAt(s, Len(s)) \in chars
  THEN RStripChars(SubSeq(s, 1, Len(s) - 1), chars)
  ELSE s

Strip(s) == RStripChars(LStrip(s), Whitespace)

\* index of the first character of s at or after i that lies in chars,
\* Len(s) + 1 if none
RECURSIVE FirstFrom(_, _, _)
FirstFrom(s, chars, i) ==
  IF i > Len(s) \/ CharAt(s, i) \in chars THEN i ELSE FirstFrom(s, chars, i + 1)

FirstIn(s, chars) == FirstFrom(s, chars, 1)

\* s.split(sep) for a one-character separator
RECURSIVE Split(_, _)
Split(s, sep) ==
  Bind(FirstIn(s, {sep}), LAMBDA i :
     IF i > Len(s) THEN <<s>>
     ELSE <<SubSeq(s, 1, i - 1)>> \o Split(DropFirst(s, i), sep))

\* s.split(): whitespace-separated tokens, no empty token
RECURSIVE SplitWS(_)
SplitWS(s) ==
  Bind(LStrip(s), LAMBDA t :
    IF t = "" THEN <<>>
    ELSE Bind(FirstIn(t, Whitespace), LAMBDA i :
           <<SubSeq(t, 1, i - 1)>> \o SplitWS(DropFirst(t, i - 1))))

\* sep.join(parts)
RECURSIVE Join(_, _)
Join(sep, parts) ==
  IF parts = <<>> THEN ""
  ELSE IF Len(parts) = 1 THEN parts[1]
  ELSE parts[1] \o sep \o Join(sep, Tail(parts))

\* s.replace(c, "") for a one-character c
RECURSIVE RemoveChar(_, _)
RemoveChar(s, c) ==
  IF s = "" THEN ""
  ELSE (IF CharAt(s, 1) = c THEN "" ELSE CharAt(s, 1)) \o RemoveChar(DropFirst(s, 1), c)

Digits == <<"0", "1", "2", "3", "4", "5", "6", "7", "8", "9">>

DigitChars == {Digits[i] : i \in 1..10}

DigitVal(c) == (CHOOSE i \in 1..10 : Digits[i] = c) - 1

\* s.isdigit() on ASCII text
IsDigit(s) == s # "" /\ \A i \in 1..Len(s) : CharAt(s, i) \in DigitChars

\* int(s) for a string of decimal digits
RECURSIVE ToInt(_)
ToInt(s) ==
  IF s = "" THEN 0
  ELSE 10 * ToInt(SubSeq(s, 1, Len(s) - 1)) + DigitVal(CharAt(s, Len(s)))

\* str(n) for an integer
RECURSIVE NatToStr(_)
NatToStr(n) ==
  IF n < 10 THEN Digits[n + 1] ELSE NatToStr(n \div 10) \o Digits[(n % 10) + 1]

IntToStr(n) == IF n < 0 THEN "-" \o NatToStr(0 - n) ELSE NatToStr(n)

RECURSIVE Pow10(_)
Pow10(k) == IF k = 0 THEN 1 ELSE 10 * Pow10(k - 1)

\* s.lower() on ASCII text
UpperCase == <<"A", "B", "C", "D", "E", "F", "G", "H", "I", "J", "K", "L", "M",
               "N", "O", "P", "Q", "R", "S", "T", "U", "V", "W", "X", "Y", "Z">>

LowerCase == <<"a", "b", "c", "d", "e", "f", "g", "h", "i", "j", "k", "l", "m",
               "n", "o", "p", "q", "r", "s", "t", "u", "v", "w", "x", "y", "z">>

LowerChar(c) ==
  IF \E i \in 1..26 : UpperCase[i] = c
  THEN LowerCase[CHOOSE i \in 1..26 : UpperCase[i] = c]
  ELSE c

RECURSIVE Lower(_)
Lower(s) == IF s = "" THEN "" ELSE LowerChar(CharAt(s, 1)) \o Lower(DropFirst(s, 1))

(***************************************************************************)
(* Python / JSON values and dicts                                          *)
(***************************************************************************)
JNull == <<"null">>

JBool(b) == <<"bool", b>>

JNum(n) == <<"num", n>>

JStr(s) == <<"str", s>>

JObj(d) == <<"obj", d>>

JList(l) == <<"list", l>>

\* the value of datetime.utcnow(); the model does not track wall-clock time
UtcNow == <<"datetime">>

Tag(v) == v[1]

IsDict(v) == Tag(v) = "obj"

IsList(v) == Tag(v) = "list"

IsStr(v) == Tag(v) = "str"

\* bool(v): Python truthiness
Truthy(v) ==
  CASE Tag(v) = "null" -> FALSE
    [] Tag(v) = "bool" -> v[2]
    [] Tag(v) = "num" -> v[2] # 0
    [] Tag(v) = "str" -> v[2] # ""
    [] Tag(v) = "obj" -> v[2] # <<>>
    [] Tag(v) = "list" -> v[2] # <<>>
    [] OTHER -> TRUE

DictKeys(d) == {d[i][1] : i \in 1..Len(d)}

DictHas(d, k) == k \in DictKeys(d)

DictGet(d, k) == d[CHOOSE i \in 1..Len(d) : d[i][1] = k][2]

\* d[k] = v
DictSet(d, k, v) ==
  IF DictHas(d, k)
  THEN [i \in 1..Len(d) |-> IF d[i][1] = k THEN <<k, v>> ELSE d[i]]
  ELSE Append(d, <<k, v>>)

\* d.update(e)
RECURSIVE DictUpdate(_, _)
DictUpdate(d, e) ==
  IF e = <<>> THEN d ELSE DictUpdate(DictSet(d, e[1][1], e[1][2]), Tail(e))

\* json.dumps(s) of a string: quotes, backslashes and newlines escaped,
\* the two halves of a longer string one after the other
RECURSIVE EscapeStr(_)
EscapeStr(s) ==
  IF s = "" THEN ""
  ELSE IF Len(s) = 1
  THEN (CASE s = "\"" -> "\\\""
          [] s = "\\" -> "\\\\"
          [] s = "\n" -> "\\n"
          [] s = "\t" -> "\\t"
          [] s = "\r" -> "\\r"
          [] OTHER -> s)
  ELSE EscapeStr(SubSeq(s, 1, Len(s) \div 2))
         \o EscapeStr(SubSeq(s, Len(s) \div 2 + 1, Len(s)))

\* json.dumps(v)
RECURSIVE Dumps(_)
Dumps(v) ==
  CASE Tag(v) = "null" -> "null"
    [] Tag(v) = "bool" -> IF v[2] THEN "true" ELSE "false"
    [] Tag(v) = "num" -> IntToStr(v[2])
    [] Tag(v) = "str" -> "\"" \o EscapeStr(v[2]) \o "\""
    [] Tag(v) = "list" ->
         "[" \o Join(", ", [i \in 1..Len(v[2]) |-> Dumps(v[2][i])]) \o "]"
    [] Tag(v) = "obj" ->
         "{" \o Join(", ", [i \in 1..Len(v[2]) |->
                  "\"" \o EscapeStr(v[2][i][1]) \o "\": " \o Dumps(v[2][i][2])]) \o "}"

\* the text str(datetime.utcnow()) yields
DatetimeText == "2024-01-01 00:00:00"

\* str(v) of a scalar Python value
PyStr(v) ==
  CASE Tag(v) = "null" -> "None"
    [] Tag(v) = "bool" -> IF v[2] THEN "True" ELSE "False"
    [] Tag(v) = "num" -> IntToStr(v[2])
    [] Tag(v) = "str" -> v[2]
    [] Tag(v) = "datetime" -> DatetimeText
    [] OTHER -> Dumps(v)

(***************************************************************************)
(* Field Filter Registry (field_filters.py)                                *)
(***************************************************************************)
\* each entry: the list it declares, under which key ("fields" or
\* "allowed_fields") it declares it, and its raw_data flag (absent = FALSE)
FIELD_FILTERS == <<
  <<"arpCache",
     [key |-> "fields", raw_data |-> FALSE, fields |->
        <<"ip_address", "mac_address", "interface">>]>>,
  <<"arpTableRaw",
     [key |-> "allowed_fields", raw_data |-> TRUE, fields |->
        <<"address", "hwtype", "hwaddress", "flags", "mask", "iface">>]>>,
  <<"audit",
     [key |-> "fields", raw_data |-> FALSE, fields |->
        <<"timestamp", "event_type", "pid", "uid", "gid", "executable",
          "command", "result">>]>>,
  <<"blockDevices",
     [key |-> "allowed_fields", raw_data |-> TRUE, fields |->
        <<"device_name", "size_bytes", "device_type", "mount_point",
          "filesystem", "model">>]>>,
  <<"boot",
     [key |-> "fields", raw_data |-> FALSE, fields |->
        <<"kernel_version", "boot_time", "uptime_seconds", "load_average">>]>>,
  <<"browsingHistory_data",
     [key |-> "fields", raw_data |-> FALSE, fields |->
        <<"url", "title", "visit_count", "last_visit_time", "typed_count">>]>>,
  <<"collection_metadata",
     [key |-> "fields", raw_data |-> FALSE, fields |->
        <<"collection_timestamp", "hostname", "collection_directory",
          "total_sections", "total_files", "total_directories">>]>>,
  <<"connectionTracking",
     [key |-> "fields", raw_data |-> TRUE, fields |->
        <<"protocol", "src_ip", "src_port", "dst_ip", "dst_port", "state",
          "timeout">>]>>,
  <<"cpuInformation",
     [key |-> "fields", raw_data |-> FALSE, fields |->
        <<"processor_id", "vendor_id", "cpu_family", "model", "model_name",
          "stepping", "microcode", "cpu_mhz", "cache_size",
          "physical_id", "siblings", "core_id", "cpu_cores", "apicid",
          "initial_apicid", "fpu", "fpu_exception", "cpuid_level",
          "wp", "flags", "bugs", "bogomips", "clflush_size",
          "cache_alignment", "address_sizes", "power_management">>]>>,
  <<"criticalFiles",
     [key |-> "fields", raw_data |-> FALSE, fields |->
        <<"file_path", "permissions", "owner", "group", "size",
          "modified_time", "file_type", "exists">>]>>,
  <<"development_programming",
     [key |-> "fields", raw_data |-> FALSE, fields |->
        <<"language", "framework", "version", "project_path", "config_files">>]>>,
  <<"disk_usage",
     [key |-> "allowed_fields", raw_data |-> TRUE, fields |->
        <<"filesystem", "size_bytes", "used_bytes", "available_bytes",
          "use_percent", "mounted_on">>]>>,
  <<"dnsCache",
     [key |-> "fields", raw_data |-> FALSE, fields |->
        <<"ip", "hostname">>]>>,
  <<"downloads_data",
     [key |-> "fields", raw_data |-> FALSE, fields |->
        <<"filePath", "sourceUrl", "title", "downloadDate", "annotationType",
          "sourceProfile">>]>>,
  <<"dpkgLogsMetadata",
     [key |-> "fields", raw_data |-> FALSE, fields |->
        <<"file_path", "file_size", "is_compressed", "processed",
          "install_count", "upgrade_count", "remove_count">>]>>,
  <<"dpkgPackages",
     [key |-> "fields", raw_data |-> FALSE, fields |->
        <<"name", "version", "architecture", "description", "status">>]>>,
  <<"environmentVariables",
     [key |-> "fields", raw_data |-> FALSE, fields |->
        <<"variables">>]>>,
  <<"extensions_data",
     [key |-> "fields", raw_data |-> FALSE, fields |->
        <<"id", "name", "version", "type", "enabled", "installDate",
          "updateDate", "description", "permissions", "origins">>]>>,
  <<"fdisk",
     [key |-> "allowed_fields", raw_data |-> TRUE, fields |->
        <<"disk_path", "disk_size", "disk_model", "sector_size",
          "disklabel_type", "disk_identifier", "device", "boot_flag",
          "start_sector", "end_sector", "sectors", "size",
          "partition_id", "partition_type">>]>>,
  <<"filesystemStats",
     [key |-> "fields", raw_data |-> TRUE, fields |->
        <<"filesystem", "inodes", "iused", "ifree", "iuse_percent",
          "mounted_on">>]>>,
  <<"filesystemTypes",
     [key |-> "fields", raw_data |-> TRUE, fields |->
        <<"filesystem_type", "nodev">>]>>,
  <<"firewallRules",
     [key |-> "fields", raw_data |-> FALSE, fields |->
        <<"iptables", "ip6tables", "ufw">>]>>,
  <<"groupAccounts",
     [key |-> "fields", raw_data |-> FALSE, fields |->
        <<"groupName", "password", "gid", "members", "groupType">>]>>,
  <<"homeDirectories",
     [key |-> "fields", raw_data |-> FALSE, fields |->
        <<"username", "uid", "gid", "permissions", "links", "owner", "group",
          "size", "month", "day", "time", "directoryName", "fullPath",
          "isUserDirectory", "shell", "exists", "diskUsage">>]>>,
  <<"installRecords",
     [key |-> "fields", raw_data |-> FALSE, fields |->
        <<"timestamp", "action", "package", "package_name", "architecture",
          "source_file", "version">>]>>,
  <<"kern",
     [key |-> "fields", raw_data |-> FALSE, fields |->
        <<"source_file", "timestamp", "hostname", "subsystem", "log_level",
          "event_type", "message">>]>>,
  <<"kernel_modules",
     [key |-> "fields", raw_data |-> FALSE, fields |->
        <<"name", "size", "used_count", "used_by">>]>>
>>

\* FIELD_FILTERS[t].get('allowed_fields', FIELD_FILTERS[t].get('fields', []))
get_allowed_fields(artifact_type) == DictGet(FIELD_FILTERS, artifact_type).fields

requires_raw_data_parsing(artifact_type) ==
  /\ DictHas(FIELD_FILTERS, artifact_type)
  /\ DictGet(FIELD_FILTERS, artifact_type).raw_data

\* `field in record` raises TypeError when record is not a container
PyInRaises(record) == Tag(record) \notin {"obj", "list", "str"}

\* `field in record` for a dict (key), a list (element) or a str (substring)
PyIn(field, record) ==
  CASE Tag(record) = "obj" -> DictHas(record[2], field)
    [] Tag(record) = "list" -> \E i \in 1..Len(record[2]) : record[2][i] = JStr(field)
    [] Tag(record) = "str" -> Contains(record[2], field)
    [] OTHER -> FALSE

RECURSIVE FilterFields(_, _)
FilterFields(d, fields) ==
  IF fields = <<>> THEN <<>>
  ELSE (IF DictHas(d, Head(fields))
        THEN << <<Head(fields), DictGet(d, Head(fields))>> >>
        ELSE <<>>) \o FilterFields(d, Tail(fields))

\* a filter that returns an empty record for a type without a registry entry
filter_record_fields_drops_unregistered(record, artifact_type) ==
  IF ~DictHas(FIELD_FILTERS, artifact_type)
  THEN [raised |-> FALSE, value |-> JObj(<<>>)]
  ELSE LET allowed_fields == get_allowed_fields(artifact_type)
       IN IF IsDict(record)
          THEN [raised |-> FALSE, value |-> JObj(FilterFields(record[2], allowed_fields))]
          ELSE IF allowed_fields # <<>> /\
                  (PyInRaises(record) \/
                   \E i \in 1..Len(allowed_fields) : PyIn(allowed_fields[i], record))
          THEN [raised |-> TRUE, value |-> JNull]
          ELSE [raised |-> FALSE, value |-> JObj(<<>>)]

\* filter_record_fields(record, artifact_type): [raised, value].  A record
\* that is not a dict raises as soon as a field is found `in` it (record[field]
\* is a TypeError on a list or str) or when `in` itself is not defined.
filter_record_fields(record, artifact_type) ==
  IF ~DictHas(FIELD_FILTERS, artifact_type)
  THEN [raised |-> FALSE, value |-> record]
  ELSE LET allowed_fields == get_allowed_fields(artifact_type)
       IN IF IsDict(record)
          THEN [raised |-> FALSE, value |-> JObj(FilterFields(record[2], allowed_fields))]
          ELSE IF allowed_fields # <<>> /\
                  (PyInRaises(record) \/
                   \E i \in 1..Len(allowed_fields) : PyIn(allowed_fields[i], record))
          THEN [raised |-> TRUE, value |-> JNull]
          ELSE [raised |-> FALSE, value |-> JObj(<<>>)]

(***************************************************************************)
(* Raw-text parsers (field_filters.py, parse_raw_stdout_data)              *)
(***************************************************************************)
\* float(s) for s of the form [+-]digits[.digits]; exponent, inf, nan and
\* underscore spellings lie outside the modelled token alphabet
FloatBody(s) == IF s # "" /\ CharAt(s, 1) \in {"+", "-"} THEN DropFirst(s, 1) ELSE s

FloatOk(s) ==
  Bind(Split(FloatBody(s), "."), LAMBDA p :
     /\ Len(p) \in {1, 2}
     /\ \A i \in 1..Len(p) : p[i] = "" \/ IsDigit(p[i])
     /\ \E i \in 1..Len(p) : p[i] # "")

\* int(float(s) * mult), truncating towards zero
FloatTimes(s, mult) ==
  Bind(Split(FloatBody(s), "."), LAMBDA p :
    Bind(IF Len(p) = 2 THEN p[2] ELSE "", LAMBDA frac :
      Bind(((ToInt(p[1]) * Pow10(Len(frac)) + ToInt(frac)) * mult) \div Pow10(Len(frac)),
           LAMBDA mag : IF CharAt(s, 1) = "-" THEN 0 - mag ELSE mag)))

\* the size conversion of the blockDevices branch: [raised, value]
SizeToBytes(size_str) ==
  LET num == SubSeq(size_str, 1, Len(size_str) - 1)
      mult == CASE EndsWith(size_str, "G") -> 1024 * 1024 * 1024
                [] EndsWith(size_str, "M") -> 1024 * 1024
                [] EndsWith(size_str, "K") -> 1024
                [] OTHER -> 0
  IN IF size_str = "" \/ size_str = "0" \/ mult = 0
     THEN [raised |-> FALSE, value |-> 0]
     ELSE IF ~FloatOk(num)
     THEN [raised |-> TRUE, value |-> 0]
     ELSE [raised |-> FALSE, value |-> FloatTimes(num, mult)]

IntOrZero(s) == IF IsDigit(s) THEN ToInt(s) ELSE 0

\* ' '.join(parts[n:])
JoinFrom(parts, n) == Join(" ", SubSeq(parts, n, Len(parts)))

\* line.split(':')[1].strip() if ':' in line else ''
AfterColon(line) == IF Contains(line, ":") THEN Strip(Split(line, ":")[2]) ELSE ""

\* the records one line contributes, for the parsers that keep no state
ParseLine(line, artifact_type) ==
  Bind(SplitWS(line), LAMBDA parts :
     CASE artifact_type = "arpTableRaw" ->
            IF Strip(line) # "" /\ ~StartsWith(line, "Address") /\ Len(parts) >= 6
            THEN << << <<"address", JStr(parts[1])>>, <<"hwtype", JStr(parts[2])>>,
                       <<"hwaddress", JStr(parts[3])>>, <<"flags", JStr(parts[4])>>,
                       <<"mask", JStr(parts[5])>>, <<"iface", JStr(parts[6])>> >> >>
            ELSE <<>>
       [] artifact_type = "blockDevices" ->
            IF Strip(line) # "" /\ ~StartsWith(line, "NAME") /\ Len(parts) >= 6
            THEN << << <<"device_name", JStr(parts[1])>>,
                       <<"size_bytes", JNum(SizeToBytes(parts[4]).value)>>,
                       <<"device_type", JStr(parts[6])>>,
                       <<"mount_point", JStr(IF Len(parts) > 6 THEN parts[7] ELSE "")>>,
                       <<"filesystem", JStr("")>>, <<"model", JStr("")>> >> >>
            ELSE <<>>
       [] artifact_type = "connectionTracking" ->
            IF Strip(line) # ""
            THEN << << <<"raw_line", JStr(Strip(line))>> >> >>
            ELSE <<>>
       [] artifact_type = "disk_usage" ->
            IF Strip(line) # "" /\ ~StartsWith(line, "Filesystem") /\ Len(parts) >= 6
            THEN << << <<"filesystem", JStr(parts[1])>>,
                       <<"size_bytes", JNum(IntOrZero(parts[2]) * 1024)>>,
                       <<"used_bytes", JNum(IntOrZero(parts[3]) * 1024)>>,
                       <<"available_bytes", JNum(IntOrZero(parts[4]) * 1024)>>,
                       <<"use_percent", JNum(IntOrZero(RemoveChar(parts[5], "%")))>>,
                       <<"mounted_on", JStr(JoinFrom(parts, 6))>> >> >>
            ELSE <<>>
       [] artifact_type = "filesystemStats" ->
            IF Strip(line) # "" /\ ~StartsWith(line, "Filesystem") /\ Len(parts) >= 6
            THEN << << <<"filesystem", JStr(parts[1])>>, <<"inodes", JStr(parts[2])>>,
                       <<"iused", JStr(parts[3])>>, <<"ifree", JStr(parts[4])>>,
                       <<"iuse_percent", JStr(parts[5])>>,
                       <<"mounted_on", JStr(JoinFrom(parts, 6))>> >> >>
            ELSE <<>>
       [] artifact_type = "filesystemTypes" ->
            IF Strip(line) # "" /\ Len(parts) >= 1
            THEN IF parts[1] = "nodev"
                 THEN << << <<"filesystem_type", JStr(IF Len(parts) > 1 THEN parts[2] ELSE "")>>,
                            <<"nodev", JBool(TRUE)>> >> >>
                 ELSE << << <<"filesystem_type", JStr(parts[1])>>,
                            <<"nodev", JBool(FALSE)>> >> >>
            ELSE <<>>
       [] OTHER -> <<>>)

\* float() raising ValueError on the size token of a blockDevices data line
LineRaises(line, artifact_type) ==
  Bind(SplitWS(line), LAMBDA parts :
     /\ artifact_type = "blockDevices"
     /\ Strip(line) # "" /\ ~StartsWith(line, "NAME") /\ Len(parts) >= 6
     /\ SizeToBytes(parts[4]).raised)

\* the partition record of the fdisk branch, <<>> when the token guard fails
FdiskPartition(line, current_disk) ==
  Bind(SplitWS(line), LAMBDA parts :
    Bind(IF Len(parts) > 1 THEN Contains(parts[2], "*") ELSE FALSE, LAMBDA boot_flag :
      LET start_idx == IF boot_flag THEN 2 ELSE 1
          n == start_idx + 1
      IN IF Len(parts) >= start_idx + 5
         THEN << DictUpdate(current_disk,
                   << <<"device", JStr(parts[1])>>,
                      <<"boot_flag", JBool(boot_flag)>>,
                      <<"start_sector", JNum(IntOrZero(parts[n]))>>,
                      <<"end_sector", JNum(IntOrZero(parts[n + 1]))>>,
                      <<"sectors", JNum(IntOrZero(parts[n + 2]))>>,
                      <<"size", JStr(parts[n + 3])>>,
                      <<"partition_id", JStr(parts[n + 4])>>,
                      <<"partition_type", JStr(IF Len(parts) > start_idx + 5
                                               THEN JoinFrom(parts, n + 5) ELSE "")>> >>) >>
         ELSE <<>>))

\* the fdisk branch: a fold over the lines that carries current_disk
RECURSIVE ParseFdisk(_, _)
ParseFdisk(lines, current_disk) ==
  IF lines = <<>> THEN <<>>
  ELSE LET line == Head(lines)
       IN Bind(SplitWS(line), LAMBDA parts :
          CASE StartsWith(line, "Disk /") ->
                 ParseFdisk(Tail(lines),
                   IF Len(parts) >= 4
                   THEN << <<"disk_path", JStr(RStripChars(parts[2], {":"}))>>,
                           <<"disk_size", JStr(parts[3] \o " " \o RStripChars(parts[4], {","}))>>,
                           <<"disk_model", JStr("")>>,
                           <<"sector_size", JStr("")>>,
                           <<"disklabel_type", JStr("")>>,
                           <<"disk_identifier", JStr("")>> >>
                   ELSE current_disk)
            [] ~StartsWith(line, "Disk /") /\ StartsWith(line, "Sector size") ->
                 ParseFdisk(Tail(lines),
                            DictSet(current_disk, "sector_size", JStr(AfterColon(line))))
            [] StartsWith(line, "Disklabel type") ->
                 ParseFdisk(Tail(lines),
                            DictSet(current_disk, "disklabel_type", JStr(AfterColon(line))))
            [] ~StartsWith(line, "Disk /") /\ StartsWith(line, "Disk identifier") ->
                 ParseFdisk(Tail(lines),
                            DictSet(current_disk, "disk_identifier", JStr(AfterColon(line))))
            [] OTHER ->
                 (IF Strip(line) # "" /\ ~StartsWith(line, "Device")
                     /\ Contains(line, "/") /\ Len(parts) >= 6
                  THEN FdiskPartition(line, current_disk)
                  ELSE <<>>) \o ParseFdisk(Tail(lines), current_disk))

RECURSIVE ParseLines(_, _)
ParseLines(lines, artifact_type) ==
  IF lines = <<>> THEN <<>>
  ELSE ParseLine(Head(lines), artifact_type) \o ParseLines(Tail(lines), artifact_type)

\* a parser that keeps the non-blank lines as raw_line records when the
\* branch of the type finds no record
parse_raw_stdout_data_raw_fallback(stdout_content, artifact_type) ==
  IF ~Truthy(stdout_content) \/ ~IsStr(stdout_content)
  THEN [raised |-> FALSE, records |-> <<>>]
  ELSE Bind(Split(Strip(stdout_content[2]), "\n"), LAMBDA lines :
          IF \E i \in 1..Len(lines) : LineRaises(lines[i], artifact_type)
          THEN [raised |-> TRUE, records |-> <<>>]
          ELSE Bind(IF artifact_type = "fdisk" THEN ParseFdisk(lines, <<>>)
                    ELSE ParseLines(lines, artifact_type),
                    LAMBDA records :
                      [raised |-> FALSE,
                       records |-> IF records = <<>>
                                   THEN ParseLines(lines, "connectionTracking")
                                   ELSE records]))

\* parse_raw_stdout_data(stdout_content, artifact_type): [raised, records]
parse_raw_stdout_data(stdout_content, artifact_type) ==
  IF ~Truthy(stdout_content) \/ ~IsStr(stdout_content)
  THEN [raised |-> FALSE, records |-> <<>>]
  ELSE Bind(Split(Strip(stdout_content[2]), "\n"), LAMBDA lines :
          IF \E i \in 1..Len(lines) : LineRaises(lines[i], artifact_type)
          THEN [raised |-> TRUE, records |-> <<>>]
          ELSE [raised |-> FALSE,
                records |-> IF artifact_type = "fdisk"
                            THEN ParseFdisk(lines, <<>>)
                            ELSE ParseLines(lines, artifact_type)])

(***************************************************************************)
(* Artifact classifier (ingestion.py)                                      *)
(***************************************************************************)
\* JSONIngestionProcessor.supported_artifacts: artifact type -> table name
supported_artifacts == <<
  <<"collection_summary", "collection_metadata">>,
  <<"userAccounts", "user_accounts">>,
  <<"processes", "processes">>,
  <<"networkConnections", "network_connections">>,
  <<"systemdServices", "systemd_services">>,
  <<"authLogs", "auth_logs">>,
  <<"browsingHistory", "browsing_history">>,
  <<"firewallRules", "firewall_rules">>,
  <<"installedPackages", "installed_packages">>,
  <<"cronJobs", "cron_jobs">>,
  <<"systemLogs", "system_logs">>,
  <<"fileSystem", "file_system">>,
  <<"networkInterfaces", "network_interfaces">>,
  <<"mountedFilesystems", "mounted_filesystems">>,
  <<"environmentVariables", "environment_variables">>,
  <<"arpCache", "arp_cache">>,
  <<"arpTableRaw", "arp_table_raw">>,
  <<"blockDevices", "block_devices">>,
  <<"boot", "boot_info">>,
  <<"browsingHistory_data", "browsing_history">>,
  <<"btmp_logs", "btmp_logs">>,
  <<"cifsMounts", "cifs_mounts">>,
  <<"collection_metadata", "collection_metadata">>,
  <<"connectionTracking", "connection_tracking">>,
  <<"cpuInformation", "cpu_information">>,
  <<"criticalFiles", "critical_files">>,
  <<"disk_usage", "disk_usage">>,
  <<"fdisk", "fdisk_info">>,
  <<"filesystemStats", "filesystem_stats">>,
  <<"filesystemTypes", "filesystem_types">>,
  <<"groupAccounts", "group_accounts">>,
  <<"homeDirectories", "home_directories">>,
  <<"installRecords", "install_records">>,
  <<"kern", "kern_logs">>,
  <<"kernel_modules", "kernel_modules">>
>>

\* the filename rules of _determine_artifact_type in source order; a rule
\* matches when, for one of its alternatives, every substring of the
\* alternative occurs in the lower-cased filename
FilenameRules == <<
  <<"collection_summary", {{"collection_summary"}}>>,
  <<"collection_metadata", {{"collection_metadata"}}>>,
  <<"userAccounts", {{"useraccounts"}, {"user_accounts"}}>>,
  <<"processes", {{"processes"}}>>,
  <<"networkConnections", {{"network", "connections"}}>>,
  <<"systemdServices", {{"systemd"}, {"services"}}>>,
  <<"authLogs", {{"auth", "log"}}>>,
  <<"browsingHistory_data", {{"browsinghistory_data"}}>>,
  <<"browsingHistory", {{"browsing"}, {"history"}}>>,
  <<"firewallRules", {{"firewall"}}>>,
  <<"installedPackages", {{"packages"}}>>,
  <<"cronJobs", {{"cron"}}>>,
  <<"systemLogs", {{"system", "log"}}>>,
  <<"filesystemStats", {{"filesystemstats"}}>>,
  <<"filesystemTypes", {{"filesystemtypes"}}>>,
  <<"fileSystem", {{"filesystem"}, {"file_system"}}>>,
  <<"networkInterfaces", {{"interface"}}>>,
  <<"mountedFilesystems", {{"mount"}}>>,
  <<"environmentVariables", {{"environment"}, {"env"}}>>,
  <<"arpCache", {{"arpcache"}, {"arp_cache"}}>>,
  <<"blockDevices", {{"blockdevices"}, {"block_devices"}}>>,
  <<"boot", {{"boot", ".json"}}>>,
  <<"btmp_logs", {{"btmp", "log"}}>>,
  <<"cifsMounts", {{"cifsmounts"}, {"cifs_mounts"}}>>,
  <<"connectionTracking", {{"connectiontracking"}, {"connection_tracking"}}>>,
  <<"cpuInformation", {{"cpuinformation"}, {"cpu_information"}, {"cpu"}}>>,
  <<"criticalFiles", {{"criticalfiles"}, {"critical_files"}}>>,
  <<"arpTableRaw", {{"arptableraw"}, {"arp_table_raw"}}>>,
  <<"disk_usage", {{"disk_usage"}, {"diskusage"}}>>,
  <<"fdisk", {{"fdisk"}}>>,
  <<"groupAccounts", {{"groupaccounts"}, {"group_accounts"}}>>,
  <<"homeDirectories", {{"homedirectories"}, {"home_directories"}}>>,
  <<"installRecords", {{"installrecords"}, {"install_records"}}>>,
  <<"kern", {{"kern.json"}, {"kern_logs"}}>>,
  <<"kernel_modules", {{"kernel_modules"}, {"kernelmodules"}}>>
>>

RuleMatches(rule, filename_lower) ==
  \E alt \in rule[2] : \A sub \in alt : Contains(filename_lower, sub)

\* the data-structure rules that follow the filename rules
ShapeType(data) ==
  IF IsDict(data) /\ DictHas(data[2], "collection_info") THEN "collection_summary"
  ELSE IF IsDict(data) /\ (DictHas(data[2], "iptables") \/ DictHas(data[2], "ip6tables"))
  THEN "firewallRules"
  ELSE IF IsList(data) /\ Len(data[2]) > 0 /\ IsDict(data[2][1])
  THEN LET keys == DictKeys(data[2][1][2])
       IN CASE "username" \in keys \/ "uid" \in keys -> "userAccounts"
            [] "pid" \in keys \/ "command" \in keys -> "processes"
            [] "url" \in keys /\ "title" \in keys -> "browsingHistory"
            [] "local_address" \in keys \/ "remote_address" \in keys -> "networkConnections"
            [] "service_name" \in keys \/ "unit_name" \in keys -> "systemdServices"
            [] OTHER -> "unknown"
  ELSE "unknown"

\* a classifier in which the last filename rule that matches wins
_determine_artifact_type_last_match(filename, data) ==
  LET filename_lower == Lower(filename)
      hits == {i \in 1..Len(FilenameRules) : RuleMatches(FilenameRules[i], filename_lower)}
  IN IF hits # {}
     THEN FilenameRules[CHOOSE i \in hits : \A j \in hits : i >= j][1]
     ELSE ShapeType(data)

_determine_artifact_type(filename, data) ==
  LET filename_lower == Lower(filename)
      hits == {i \in 1..Len(FilenameRules) : RuleMatches(FilenameRules[i], filename_lower)}
  IN IF hits # {}
     THEN FilenameRules[CHOOSE i \in hits : \A j \in hits : i <= j][1]
     ELSE ShapeType(data)

(***************************************************************************)
(* Record normalizer (ingestion.py)                                        *)
(***************************************************************************)
\* the length beyond which _prepare_record_for_insertion truncates a string
MaxTextLen == 10000

\* a normalizer that stores a string of any length as it is
PrepareValueUntruncated(value) ==
  CASE Tag(value) = "null" -> JNull
    [] Tag(value) \in {"obj", "list"} -> JStr(Dumps(value))
    [] Tag(value) = "bool" -> value
    [] Tag(value) = "num" -> value
    [] Tag(value) = "str" -> value
    [] OTHER -> JStr(PyStr(value))

\* a normalizer that stores repr(value) of a string, the string in quotes
\* (the strings normalized hold no quote and no backslash)
PrepareValueReprStrings(value) ==
  CASE Tag(value) = "null" -> JNull
    [] Tag(value) \in {"obj", "list"} -> JStr(Dumps(value))
    [] Tag(value) = "bool" -> value
    [] Tag(value) = "num" -> value
    [] Tag(value) = "str" ->
         IF Len(value[2]) > MaxTextLen THEN JStr(SubSeq(value[2], 1, MaxTextLen))
         ELSE JStr("'" \o value[2] \o "'")
    [] OTHER -> JStr(PyStr(value))

PrepareValue(value) ==
  CASE Tag(value) = "null" -> JNull
    [] Tag(value) \in {"obj", "list"} -> JStr(Dumps(value))
    [] Tag(value) = "bool" -> value
    [] Tag(value) = "num" -> value
    [] Tag(value) = "str" ->
         IF Len(value[2]) > MaxTextLen THEN JStr(SubSeq(value[2], 1, MaxTextLen)) ELSE value
    [] OTHER -> JStr(PyStr(value))

\* _prepare_record_for_insertion(record, artifact_type) for a dict record and
\* a non-empty artifact_type; the result is a dict
_prepare_record_for_insertion(record, artifact_type) ==
  LET filtered == filter_record_fields(JObj(record), artifact_type).value[2]
  IN [i \in 1..Len(filtered) |-> <<filtered[i][1], PrepareValue(filtered[i][2])>>]

(***************************************************************************)
(* Table provisioner and insert (ingestion.py)                             *)
(*                                                                         *)
(* tables maps <<schema, table>> to [cols, rows]; cols maps a column name  *)
(* to its type, rows is the sequence of committed rows.  Every             *)
(* _insert_record call takes a fault input: "none", "ensure" (the          *)
(* existence check, CREATE TABLE or its commit raises) or "insert" (the    *)
(* INSERT or its commit raises).                                           *)
(***************************************************************************)
FaultKinds == {"none", "ensure", "insert"}

ColumnType(key, value) ==
  CASE key = "id" -> "SERIAL PRIMARY KEY"
    [] key = "created_at" -> "TIMESTAMP"
    [] Tag(value) = "bool" -> "BOOLEAN"
    [] Tag(value) = "num" -> "INTEGER"
    [] OTHER -> "TEXT"

\* the column set CREATE TABLE gives a table created for this record
ColumnsFor(record) ==
  [k \in DictKeys(record) \cup {"id", "created_at"} |->
     IF DictHas(record, k) THEN ColumnType(k, DictGet(record, k))
     ELSE IF k = "id" THEN "SERIAL PRIMARY KEY" ELSE "TIMESTAMP"]

TableExists(tbls, schema_name, table_name) == <<schema_name, table_name>> \in DOMAIN tbls

\* an _ensure_table_exists that adds to an existing table the columns the
\* record has and the table lacks
_ensure_table_exists_adding_columns(tbls, schms, schema_name, table_name, record, fault) ==
  IF fault = "ensure" THEN [ok |-> FALSE, tables |-> tbls]
  ELSE IF TableExists(tbls, schema_name, table_name)
  THEN [ok |-> TRUE,
        tables |-> [tbls EXCEPT ![<<schema_name, table_name>>].cols =
                      [k \in DOMAIN @ \cup DictKeys(record) |->
                         IF k \in DOMAIN @ THEN @[k] ELSE ColumnType(k, DictGet(record, k))]]]
  ELSE IF schema_name \notin schms THEN [ok |-> FALSE, tables |-> tbls]
  ELSE [ok |-> TRUE,
        tables |-> [p \in DOMAIN tbls \cup {<<schema_name, table_name>>} |->
                      IF p = <<schema_name, table_name>>
                      THEN [cols |-> ColumnsFor(record), rows |-> <<>>]
                      ELSE tbls[p]]]

\* a provisioner that skips the existence check: every call creates the
\* table anew from the record at hand, without the rows it held
_ensure_table_exists_always_creating(tbls, schms, schema_name, table_name, record, fault) ==
  IF fault = "ensure" THEN [ok |-> FALSE, tables |-> tbls]
  ELSE IF schema_name \notin schms THEN [ok |-> FALSE, tables |-> tbls]
  ELSE [ok |-> TRUE,
        tables |-> [p \in DOMAIN tbls \cup {<<schema_name, table_name>>} |->
                      IF p = <<schema_name, table_name>>
                      THEN [cols |-> ColumnsFor(record), rows |-> <<>>]
                      ELSE tbls[p]]]

\* _ensure_table_exists: [ok, tables]
_ensure_table_exists(tbls, schms, schema_name, table_name, record, fault) ==
  IF fault = "ensure" THEN [ok |-> FALSE, tables |-> tbls]
  ELSE IF TableExists(tbls, schema_name, table_name) THEN [ok |-> TRUE, tables |-> tbls]
  ELSE IF schema_name \notin schms THEN [ok |-> FALSE, tables |-> tbls]
  ELSE [ok |-> TRUE,
        tables |-> [p \in DOMAIN tbls \cup {<<schema_name, table_name>>} |->
                      IF p = <<schema_name, table_name>>
                      THEN [cols |-> ColumnsFor(record), rows |-> <<>>]
                      ELSE tbls[p]]]

\* an insert whose failure is not rolled back: the row of a failed INSERT
\* stays in the table
_insert_record_without_rollback(tbls, schms, schema_name, table_name, record, fault, src) ==
  Bind(_ensure_table_exists(tbls, schms, schema_name, table_name, record, fault),
       LAMBDA e :
         IF ~e.ok THEN [ok |-> FALSE, tables |-> e.tables]
         ELSE [ok |-> ~(\/ fault = "insert"
                        \/ record = <<>>
                        \/ ~(DictKeys(record) \subseteq
                               DOMAIN e.tables[<<schema_name, table_name>>].cols)),
               tables |-> [e.tables EXCEPT ![<<schema_name, table_name>>].rows =
                             Append(@, [rec |-> record, src |-> src])]])

\* _insert_record: [ok, tables]; src tags the stored row with the file and
\* the position of the record it came from
_insert_record(tbls, schms, schema_name, table_name, record, fault, src) ==
  Bind(_ensure_table_exists(tbls, schms, schema_name, table_name, record, fault),
       LAMBDA e :
         IF ~e.ok THEN [ok |-> FALSE, tables |-> e.tables]
         ELSE IF \/ fault = "insert"
                 \/ record = <<>>
                 \/ ~(DictKeys(record) \subseteq DOMAIN e.tables[<<schema_name, table_name>>].cols)
         THEN [ok |-> FALSE, tables |-> e.tables]
         ELSE [ok |-> TRUE,
               tables |-> [e.tables EXCEPT ![<<schema_name, table_name>>].rows =
                             Append(@, [rec |-> record, src |-> src])]])

(***************************************************************************)
(* Ingestion orchestrator (ingestion.py)                                   *)
(*                                                                         *)
(* ctx carries what one process_file call fixes: the existing schemas, the *)
(* target schema and table, the fault input of each _insert_record call in *)
(* call order, and the file being ingested.  A processing function returns *)
(* [success, message, stats, tables, attempts]; attempts lists, in call    *)
(* order, the position of each record handed to _insert_record and whether *)
(* the call returned True.                                                 *)
(***************************************************************************)
FaultAt(faults, k) == IF k <= Len(faults) THEN faults[k] ELSE "none"

ZeroStats == [total_records |-> 0, inserted_records |-> 0, errors |-> 0]

Outcome(success, message, stats, tbls, attempts) ==
  [success |-> success, message |-> message, stats |-> stats,
   tables |-> tbls, attempts |-> attempts]

\* the text of a caught exception, str(e); its wording is not modelled
ExcText == "<exception>"

\* a loop that breaks at the first _insert_record call that returns False
RECURSIVE InsertAllUntilFailure(_, _, _, _)
InsertAllUntilFailure(tbls, ctx, recs, k) ==
  IF recs = <<>> THEN [tables |-> tbls, attempts |-> <<>>]
  ELSE Bind(_insert_record(tbls, ctx.schemas, ctx.schema_name, ctx.table_name,
                           recs[1].rec, FaultAt(ctx.faults, k), <<ctx.file, recs[1].idx>>),
            LAMBDA r :
              Bind(IF r.ok THEN InsertAllUntilFailure(r.tables, ctx, Tail(recs), k + 1)
                   ELSE [tables |-> r.tables, attempts |-> <<>>],
                   LAMBDA rest :
                     [tables |-> rest.tables,
                      attempts |-> <<[idx |-> recs[1].idx, ok |-> r.ok]>> \o rest.attempts]))

\* the for-loops of _process_raw_data and _process_list_data: one
\* _insert_record call per record, whatever the earlier calls returned
RECURSIVE InsertAll(_, _, _, _)
InsertAll(tbls, ctx, recs, k) ==
  IF recs = <<>> THEN [tables |-> tbls, attempts |-> <<>>]
  ELSE Bind(_insert_record(tbls, ctx.schemas, ctx.schema_name, ctx.table_name,
                           recs[1].rec, FaultAt(ctx.faults, k), <<ctx.file, recs[1].idx>>),
            LAMBDA r :
              Bind(InsertAll(r.tables, ctx, Tail(recs), k + 1),
                   LAMBDA rest :
                     [tables |-> rest.tables,
                      attempts |-> <<[idx |-> recs[1].idx, ok |-> r.ok]>> \o rest.attempts]))

CountOk(attempts, b) == Cardinality({i \in 1..Len(attempts) : attempts[i].ok = b})

\* a single-record insert that leaves total_records as it was
InsertOneUncounted(tbls, ctx, record, stats, okMessage, failMessage) ==
  Bind(_insert_record(tbls, ctx.schemas, ctx.schema_name, ctx.table_name,
                      record, FaultAt(ctx.faults, 1), <<ctx.file, 1>>),
       LAMBDA r :
         IF r.ok
         THEN Outcome(TRUE, okMessage, [stats EXCEPT !.inserted_records = 1], r.tables,
                      <<[idx |-> 1, ok |-> TRUE]>>)
         ELSE Outcome(FALSE, failMessage, [stats EXCEPT !.errors = 1], r.tables,
                      <<[idx |-> 1, ok |-> FALSE]>>))

\* the single-record insert shared by the dict and scalar branches
InsertOne(tbls, ctx, record, stats, okMessage, failMessage) ==
  Bind(_insert_record(tbls, ctx.schemas, ctx.schema_name, ctx.table_name,
                      record, FaultAt(ctx.faults, 1), <<ctx.file, 1>>),
       LAMBDA r :
         IF r.ok
         THEN Outcome(TRUE, okMessage,
                      [stats EXCEPT !.inserted_records = 1, !.total_records = 1], r.tables,
                      <<[idx |-> 1, ok |-> TRUE]>>)
         ELSE Outcome(FALSE, failMessage, [stats EXCEPT !.errors = 1], r.tables,
                      <<[idx |-> 1, ok |-> FALSE]>>))

_process_collection_summary(data, tbls, ctx, stats) ==
  Bind(filter_record_fields(data, "collection_metadata"),
       LAMBDA filtered_data :
         IF filtered_data.raised
         THEN Outcome(FALSE, "Error processing collection summary: " \o ExcText,
                      [stats EXCEPT !.errors = 1], tbls, <<>>)
         ELSE InsertOne(tbls, ctx,
                        DictSet(_prepare_record_for_insertion(filtered_data.value[2],
                                                              "collection_metadata"),
                                "created_at", UtcNow),
                        stats,
                        "Collection summary processed successfully",
                        "Failed to insert collection summary"))

\* the dicts of a list with their positions, each given created_at when it
\* has none and then normalized under the table name
ListRecords(items, table_name) ==
  LET dictIdx == {i \in 1..Len(items) : IsDict(items[i])}
      F[n \in 0..Len(items)] ==
        IF n = 0 THEN <<>>
        ELSE IF n \in dictIdx
        THEN Append(F[n - 1],
               [idx |-> n,
                rec |-> _prepare_record_for_insertion(
                          IF DictHas(items[n][2], "created_at") THEN items[n][2]
                          ELSE DictSet(items[n][2], "created_at", UtcNow),
                          table_name)])
        ELSE F[n - 1]
  IN F[Len(items)]

_process_list_data(data, tbls, ctx, stats) ==
  IF ~IsList(data)
  THEN Outcome(FALSE, "Expected list data format", stats, tbls, <<>>)
  ELSE Bind(InsertAll(tbls, ctx, ListRecords(data[2], ctx.table_name), 1),
            LAMBDA loop :
              Bind([total_records |-> Len(data[2]),
                    inserted_records |-> CountOk(loop.attempts, TRUE),
                    errors |-> stats.errors + CountOk(loop.attempts, FALSE)],
                   LAMBDA out :
                     IF out.inserted_records = out.total_records
                     THEN Outcome(TRUE, "Successfully processed all "
                                        \o IntToStr(out.inserted_records) \o " records",
                                  out, loop.tables, loop.attempts)
                     ELSE Outcome(FALSE, "Processed " \o IntToStr(out.inserted_records) \o "/"
                                         \o IntToStr(out.total_records) \o " records with "
                                         \o IntToStr(out.errors) \o " errors",
                                  out, loop.tables, loop.attempts)))

\* the parsed records with their positions, each filtered, normalized and
\* given created_at and artifact_type
RawRecords(parsed_records, artifact_type) ==
  [i \in 1..Len(parsed_records) |->
     [idx |-> i,
      rec |-> DictSet(DictSet(
                _prepare_record_for_insertion(
                  filter_record_fields(JObj(parsed_records[i]), artifact_type).value[2],
                  artifact_type),
                "created_at", UtcNow),
              "artifact_type", JStr(artifact_type))]]

\* a _process_raw_data without the early return for an empty parse result
_process_raw_data_empty_is_failure(data, tbls, ctx, stats, artifact_type) ==
  Bind(IF IsDict(data)
       THEN (IF DictHas(data[2], "stdout") THEN DictGet(data[2], "stdout") ELSE JStr(""))
       ELSE IF IsStr(data) THEN data ELSE JNull,
       LAMBDA stdout_content :
         IF ~Truthy(stdout_content)
         THEN Outcome(FALSE, "No stdout content found for " \o artifact_type,
                      [stats EXCEPT !.errors = 1], tbls, <<>>)
         ELSE Bind(parse_raw_stdout_data(stdout_content, artifact_type),
                   LAMBDA parsed :
                     IF parsed.raised
                     THEN Outcome(FALSE, "Error processing raw data for " \o artifact_type
                                         \o ": " \o ExcText,
                                  [stats EXCEPT !.errors = 1], tbls, <<>>)
                     ELSE Bind(InsertAll(tbls, ctx,
                                         RawRecords(parsed.records, artifact_type), 1),
                               LAMBDA loop :
                                 Bind([total_records |-> Len(parsed.records),
                                       inserted_records |-> CountOk(loop.attempts, TRUE),
                                       errors |-> stats.errors
                                                  + CountOk(loop.attempts, FALSE)],
                                      LAMBDA out :
                                        IF out.inserted_records > 0
                                        THEN Outcome(TRUE,
                                               "Processed " \o IntToStr(out.inserted_records)
                                               \o "/" \o IntToStr(out.total_records)
                                               \o " records for " \o artifact_type,
                                               out, loop.tables, loop.attempts)
                                        ELSE Outcome(FALSE,
                                               "Failed to insert any records for "
                                               \o artifact_type,
                                               out, loop.tables, loop.attempts)))))

_process_raw_data(data, tbls, ctx, stats, artifact_type) ==
  Bind(IF IsDict(data)
       THEN (IF DictHas(data[2], "stdout") THEN DictGet(data[2], "stdout") ELSE JStr(""))
       ELSE IF IsStr(data) THEN data ELSE JNull,
       LAMBDA stdout_content :
         IF ~Truthy(stdout_content)
         THEN Outcome(FALSE, "No stdout content found for " \o artifact_type,
                      [stats EXCEPT !.errors = 1], tbls, <<>>)
         ELSE Bind(parse_raw_stdout_data(stdout_content, artifact_type),
                   LAMBDA parsed :
                     IF parsed.raised
                     THEN Outcome(FALSE, "Error processing raw data for " \o artifact_type
                                         \o ": " \o ExcText,
                                  [stats EXCEPT !.errors = 1], tbls, <<>>)
                     ELSE IF parsed.records = <<>>
                     THEN Outcome(TRUE, "No parseable data found in " \o artifact_type,
                                  [stats EXCEPT !.total_records = 0, !.inserted_records = 0],
                                  tbls, <<>>)
                     ELSE Bind(InsertAll(tbls, ctx,
                                         RawRecords(parsed.records, artifact_type), 1),
                               LAMBDA loop :
                                 Bind([total_records |-> Len(parsed.records),
                                       inserted_records |-> CountOk(loop.attempts, TRUE),
                                       errors |-> stats.errors
                                                  + CountOk(loop.attempts, FALSE)],
                                      LAMBDA out :
                                        IF out.inserted_records > 0
                                        THEN Outcome(TRUE,
                                               "Processed " \o IntToStr(out.inserted_records)
                                               \o "/" \o IntToStr(out.total_records)
                                               \o " records for " \o artifact_type,
                                               out, loop.tables, loop.attempts)
                                        ELSE Outcome(FALSE,
                                               "Failed to insert any records for "
                                               \o artifact_type,
                                               out, loop.tables, loop.attempts)))))

_process_structured_data(data, tbls, ctx, stats, artifact_type) ==
  IF requires_raw_data_parsing(artifact_type)
  THEN _process_raw_data(data, tbls, ctx, stats, artifact_type)
  ELSE IF IsDict(data)
  THEN InsertOne(tbls, ctx,
                 DictSet(DictSet(_prepare_record_for_insertion(data[2], artifact_type),
                                 "created_at", UtcNow),
                         "artifact_type", JStr(artifact_type)),
                 stats, artifact_type \o " processed successfully",
                 "Failed to insert " \o artifact_type)
  ELSE IF IsList(data)
  THEN _process_list_data(data, tbls, ctx, stats)
  ELSE InsertOne(tbls, ctx,
                 << <<"content", JStr(PyStr(data))>>,
                    <<"artifact_type", JStr(artifact_type)>>,
                    <<"created_at", UtcNow>> >>,
                 stats, artifact_type \o " processed successfully",
                 "Failed to insert " \o artifact_type)

_process_firewall_rules(data, tbls, ctx, stats) ==
  Bind(filter_record_fields(data, "firewallRules"),
       LAMBDA filtered_data :
         IF filtered_data.raised
         THEN Outcome(FALSE, "Error processing firewall rules: " \o ExcText, stats, tbls, <<>>)
         ELSE _process_structured_data(filtered_data.value, tbls, ctx, stats, "firewallRules"))

\* the types _process_artifact_data hands to _process_structured_data
StructuredTypes ==
  {"arpCache", "arpTableRaw", "blockDevices", "boot", "browsingHistory_data",
   "btmp_logs", "cifsMounts", "collection_metadata", "connectionTracking",
   "cpuInformation", "criticalFiles", "disk_usage", "fdisk", "filesystemStats",
   "filesystemTypes", "groupAccounts", "homeDirectories", "installRecords", "kern",
   "kernel_modules"}

_process_artifact_data(data, tbls, ctx, artifact_type) ==
  IF artifact_type = "collection_summary"
  THEN _process_collection_summary(data, tbls, ctx, ZeroStats)
  ELSE IF artifact_type = "firewallRules"
  THEN _process_firewall_rules(data, tbls, ctx, ZeroStats)
  ELSE IF artifact_type \in StructuredTypes
  THEN _process_structured_data(data, tbls, ctx, ZeroStats, artifact_type)
  ELSE _process_list_data(data, tbls, ctx, ZeroStats)

(***************************************************************************)
(* Input files                                                             *)
(*                                                                         *)
(* A file is [name, size, valid, data]: valid tells whether its bytes are  *)
(* JSON text, data is the value json.load returns when they are.           *)
(***************************************************************************)
File(name, data) == [name |-> name, size |-> 2048, valid |-> TRUE, data |-> data]

Obj1(k, v) == JObj(<< <<k, v>> >>)

RawTypes == <<"arpTableRaw", "blockDevices", "connectionTracking", "disk_usage",
              "fdisk", "filesystemStats", "filesystemTypes">>

\* command output with lines the parser of the type turns into records
GoodText(artifact_type) ==
  CASE artifact_type = "arpTableRaw" ->
         "Address HWtype HWaddress Flags Mask Iface\n10.0.0.1 ether aa:bb C * eth0\nlo\n10.0.0.2 ether cc:dd C * eth1"
    [] artifact_type = "blockDevices" ->
         "NAME MAJ:MIN RM SIZE RO TYPE MOUNTPOINT\nsda 8:0 0 1G 0 disk\nsda1 8:1 0 512M 0 part /"
    [] artifact_type = "connectionTracking" ->
         "tcp 6 src=10.0.0.1\n\nudp 17 src=10.0.0.2"
    [] artifact_type = "disk_usage" ->
         "Filesystem 1K-blocks Used Available Use% Mounted on\n/dev/sda1 1024 512 512 50% /mnt"
    [] artifact_type = "fdisk" ->
         "Disk /dev/sda: 20 GiB, 2147 bytes, 4194 sectors\nDisklabel type: dos\n/dev/sda1 * 2048 4095 2048 1M 83 Linux\n/dev/sda2 4096 8191 4096 2M 8e Linux LVM"
    [] artifact_type = "filesystemStats" ->
         "Filesystem Inodes IUsed IFree IUse% Mounted on\n/dev/sda1 100 5 95 5% /"
    [] artifact_type = "filesystemTypes" ->
         "nodev sysfs\next4"

\* command output in which the parser of the type finds no line: a header
\* and short lines where the type has them, blank lines otherwise
NoMatchText(artifact_type) ==
  CASE artifact_type = "arpTableRaw" -> "Address HWtype HWaddress Flags Mask Iface\nshort line"
    [] artifact_type = "blockDevices" -> "NAME MAJ:MIN RM SIZE RO TYPE MOUNTPOINT\nsda 8:0"
    [] artifact_type = "connectionTracking" -> "\n\n"
    [] artifact_type = "disk_usage" -> "Filesystem 1K-blocks Used Available Use% Mounted on"
    [] artifact_type = "fdisk" -> "Device Boot Start End Sectors Size Id Type\nDisk model: VBOX"
    [] artifact_type = "filesystemStats" -> "Filesystem Inodes IUsed IFree IUse% Mounted on\n/dev/sda1 100"
    [] artifact_type = "filesystemTypes" -> "\t"

\* the payloads tried for every raw-data type
RawPayloads(artifact_type) == <<
  JObj(<<>>),
  Obj1("stdout", JNum(5)),
  Obj1("stdout", JNull),
  Obj1("stdout", JList(<<JStr("lo")>>)),
  JList(<<JNum(1)>>),
  JNum(5),
  Obj1("stdout", JStr("")),
  JStr(""),
  Obj1("stdout", JStr(" \n ")),
  Obj1("stdout", JStr(NoMatchText(artifact_type))),
  JStr(NoMatchText(artifact_type)),
  Obj1("stdout", JStr(GoodText(artifact_type))),
  JStr(GoodText(artifact_type))
>>

RawFiles ==
  [n \in 1..(Len(RawTypes) * Len(RawPayloads("fdisk"))) |->
     LET t == RawTypes[((n - 1) \div Len(RawPayloads("fdisk"))) + 1]
         p == ((n - 1) % Len(RawPayloads("fdisk"))) + 1
     IN File(Lower(t) \o ".json", RawPayloads(t)[p])]

MainFiles == <<
  File("processes.json",
       JList(<< JObj(<< <<"pid", JNum(1)>>, <<"command", JStr("init")>> >>),
                JObj(<< <<"pid", JNum(2)>>, <<"command", JStr("sh")>>,
                        <<"tty", JStr("pts0")>> >>) >>)),
  File("data.json",
       JList(<< JObj(<< <<"pid", JNum(3)>>, <<"command", JStr("cat")>>,
                        <<"tty", JStr("pts1")>> >>) >>)),
  File("cron.json", JList(<< Obj1("job", JStr("backup")), JNum(7), Obj1("job", JStr("sync")) >>)),
  File("packages.json", JList(<<>>)),
  File("useraccounts.json", JObj(<< <<"username", JStr("root")>>, <<"uid", JNum(0)>> >>)),
  File("environment.json", Obj1("variables", Obj1("PATH", JStr("/bin")))),
  File("collection_summary.json", Obj1("collection_info", Obj1("hostname", JStr("h1")))),
  File("firewall.json",
       JObj(<< <<"iptables", Obj1("rules", JList(<<JStr("-P INPUT ACCEPT")>>))>>,
               <<"ip6tables", Obj1("rules", JList(<<>>))>>,
               <<"generated", JStr("t0")>> >>)),
  File("fw_v4.json", Obj1("iptables", Obj1("rules", JList(<<JStr("-P INPUT DROP")>>)))),
  File("Boot.JSON", JObj(<< <<"kernel_version", JStr("5.4")>>, <<"uptime_seconds", JNum(60)>>,
                            <<"note", JStr("x")>> >>)),
  File("kernel_modules.json",
       JList(<< JObj(<< <<"name", JStr("ext4")>>, <<"size", JNum(1)>> >>),
                Obj1("module", JStr("xfs")) >>)),
  File("kern.json", JStr("panic")),
  File("notes.json", Obj1("a", JNum(1))),
  File("arpcache.json",
       JList(<< JObj(<< <<"ip_address", JStr("10.0.0.1")>>,
                        <<"hostname", JStr("gw")>> >>) >>)),
  [name |-> "broken.json", size |-> 7, valid |-> FALSE, data |-> JNull]
>>

Files == MainFiles \o RawFiles

FileIds == 1..Len(Files)

MainIds == 1..Len(MainFiles)

\* what the classifier returns for each file, as a tuple over the file ids
FileType ==
  <<>> \o [f \in FileIds |-> _determine_artifact_type(Files[f].name, Files[f].data)]

IsRawFile(f) == requires_raw_data_parsing(FileType[f])

\* the stdout a raw-data payload supplies, null when it supplies none
StdoutOf(data) ==
  IF IsDict(data)
  THEN (IF DictHas(data[2], "stdout") THEN DictGet(data[2], "stdout") ELSE JNull)
  ELSE IF IsStr(data) THEN data ELSE JNull

\* an upper bound on the _insert_record calls one process_file call makes on
\* each file, as a tuple over the file ids: one per element of a list, one per parsed line of a raw-data
\* stdout, one otherwise
InsertCalls ==
  <<>> \o [f \in FileIds |->
     IF IsList(Files[f].data) THEN Len(Files[f].data[2])
     ELSE IF IsRawFile(f)
     THEN Len(parse_raw_stdout_data(StdoutOf(Files[f].data), FileType[f]).records)
     ELSE 1]

(***************************************************************************)
(* Bounds of the model                                                     *)
(***************************************************************************)
\* process_file calls per behaviour
MaxOps == 2

\* cases created per behaviour
MaxCases == 2

\* _insert_record calls of one process_file call that may take a fault
MaxFaults == 2

\* process_file calls per behaviour that has only the file Boot.JSON at hand:
\* enough for a failed upload, a successful upload and a retry of the failed
\* one
MaxRetryOps == 3

RetryPool == {CHOOSE f \in MainIds : Files[f].name = "Boot.JSON"}

\* the values uuid.uuid4() returns, in the order it returns them
UuidPool == <<"0a-01", "0b-02", "0c-03", "0d-04", "0e-05", "0f-06">>

\* a case_uuid no case has
UnknownUuid == "ff-ff"

FaultSeqs == [1..MaxFaults -> FaultKinds]

\* the fault inputs worth telling apart for file f (0: no file): a fault past
\* the last _insert_record call is never read
FaultsFor(f) ==
  {s \in FaultSeqs :
     \A k \in 1..MaxFaults : (f = 0 \/ k > InsertCalls[f]) => s[k] = "none"}

(***************************************************************************)
(* State                                                                   *)
(***************************************************************************)
VARIABLES
  cases,      \* the cases table: id -> Case row
  case_seq,   \* the last id the cases table handed out
  schemas,    \* the namespaces that exist in the store
  tables,     \* <<schema, table>> -> [cols, rows]
  logs,       \* the ingestion_logs table: the sequence of IngestionLog rows
  uploads,    \* the upload folder: <<directory, filename>> -> file
  pool,       \* the files at hand for upload
  draws,      \* how many uuid4 values have been drawn
  ops,        \* how many process_file calls have run
  result,     \* what the last entry point returned, with its process_file outcome
  calls,      \* the process_file calls that run concurrently, each with its position
  applied     \* a pure function under test: its arguments, calls made, last value

vars == <<cases, case_seq, schemas, tables, logs, uploads, pool, draws, ops, result, calls, applied>>

\* the process_file calls a behaviour may make
OpsLimit == IF pool = RetryPool THEN MaxRetryOps ELSE MaxOps

(***************************************************************************)
(* process_file (ingestion.py)                                             *)
(***************************************************************************)
FileStats(stats, artifact_type, file_size) ==
  [total_records |-> stats.total_records, inserted_records |-> stats.inserted_records,
   errors |-> stats.errors, artifact_type |-> artifact_type, file_size |-> file_size]

CaseByUuid(cs, case_uuid) == {c \in DOMAIN cs : cs[c].case_uuid = case_uuid}

\* a process_file that looks the case up only after processing the data,
\* under the first case of the table when case_uuid names none
process_file_case_checked_last(tbls, schms, cs, f, case_uuid, faults) ==
  Bind(FileType[f],
       LAMBDA artifact_type :
         IF ~Files[f].valid
         THEN Outcome(FALSE, "Invalid JSON format: " \o ExcText,
                      FileStats(ZeroStats, "unknown", Files[f].size), tbls, <<>>)
         ELSE IF ~DictHas(supported_artifacts, artifact_type)
         THEN Outcome(FALSE, "Unsupported artifact type: " \o artifact_type,
                      FileStats(ZeroStats, artifact_type, Files[f].size), tbls, <<>>)
         ELSE IF DOMAIN cs = {}
         THEN Outcome(FALSE, "Case not found",
                      FileStats(ZeroStats, artifact_type, Files[f].size), tbls, <<>>)
         ELSE Bind(_process_artifact_data(
                     Files[f].data, tbls,
                     [schemas |-> schms,
                      schema_name |->
                        cs[CHOOSE c \in (IF CaseByUuid(cs, case_uuid) = {} THEN DOMAIN cs
                                         ELSE CaseByUuid(cs, case_uuid)) : TRUE].schema_name,
                      table_name |-> DictGet(supported_artifacts, artifact_type),
                      faults |-> faults, file |-> f],
                     artifact_type),
                   LAMBDA r :
                     IF CaseByUuid(cs, case_uuid) = {}
                     THEN Outcome(FALSE, "Case not found",
                                  FileStats(ZeroStats, artifact_type, Files[f].size),
                                  r.tables, <<>>)
                     ELSE Outcome(r.success, r.message,
                                  FileStats(r.stats, artifact_type, Files[f].size),
                                  r.tables, r.attempts)))

\* process_file(file_path, case_uuid, filename) on the file f stored at
\* file_path: [success, message, stats, tables, attempts]
process_file(tbls, schms, cs, f, case_uuid, faults) ==
  Bind(FileType[f],
       LAMBDA artifact_type :
         IF ~Files[f].valid
         THEN Outcome(FALSE, "Invalid JSON format: " \o ExcText,
                      FileStats(ZeroStats, "unknown", Files[f].size), tbls, <<>>)
         ELSE IF ~DictHas(supported_artifacts, artifact_type)
         THEN Outcome(FALSE, "Unsupported artifact type: " \o artifact_type,
                      FileStats(ZeroStats, artifact_type, Files[f].size), tbls, <<>>)
         ELSE IF CaseByUuid(cs, case_uuid) = {}
         THEN Outcome(FALSE, "Case not found",
                      FileStats(ZeroStats, artifact_type, Files[f].size), tbls, <<>>)
         ELSE Bind(_process_artifact_data(
                     Files[f].data, tbls,
                     [schemas |-> schms,
                      schema_name |->
                        cs[CHOOSE c \in CaseByUuid(cs, case_uuid) : TRUE].schema_name,
                      table_name |-> DictGet(supported_artifacts, artifact_type),
                      faults |-> faults, file |-> f],
                     artifact_type),
                   LAMBDA r :
                     Outcome(r.success, r.message,
                             FileStats(r.stats, artifact_type, Files[f].size),
                             r.tables, r.attempts)))

(***************************************************************************)
(* Ingestion tasks (utils/ingestion.py)                                    *)
(***************************************************************************)
\* file_size / (1024 * 1024): megabytes as a fraction <<bytes, MBDivisor>>
MBDivisor == 1048576

Megabytes(size) == <<size, MBDivisor>>

RECURSIVE SumSizes(_)
SumSizes(ls) ==
  IF ls = <<>> THEN 0
  ELSE (IF Head(ls).status = "success" THEN Head(ls).file_size[1] ELSE 0) + SumSizes(Tail(ls))

CountStatus(ls, statuses) == Cardinality({i \in 1..Len(ls) : ls[i].status \in statuses})

CaseLogs(ls, case_id) == SelectSeq(ls, LAMBDA l : l.case_id = case_id)

\* an update_case_statistics under which any failed log makes the case
\* 'failed'
update_case_statistics_failed_first(cs, ls, case_id) ==
  IF case_id \notin DOMAIN cs THEN cs
  ELSE LET ingestion_logs == CaseLogs(ls, case_id)
           total_artifacts == CountStatus(ingestion_logs, {"success"})
           failed_count == CountStatus(ingestion_logs, {"failed"})
           pending_count == CountStatus(ingestion_logs, {"pending", "processing"})
           status == IF pending_count > 0 THEN "processing"
                     ELSE IF failed_count > 0 THEN "failed"
                     ELSE IF total_artifacts > 0 THEN "completed"
                     ELSE "pending"
       IN [cs EXCEPT ![case_id].total_artifacts = total_artifacts,
                     ![case_id].total_file_size = Megabytes(SumSizes(ingestion_logs)),
                     ![case_id].ingestion_status = status]

\* update_case_statistics(case_id): the new cases table
update_case_statistics(cs, ls, case_id) ==
  IF case_id \notin DOMAIN cs THEN cs
  ELSE LET ingestion_logs == CaseLogs(ls, case_id)
           total_artifacts == CountStatus(ingestion_logs, {"success"})
           failed_count == CountStatus(ingestion_logs, {"failed"})
           pending_count == CountStatus(ingestion_logs, {"pending", "processing"})
           status == IF pending_count > 0 THEN "processing"
                     ELSE IF failed_count > 0 /\ total_artifacts = 0 THEN "failed"
                     ELSE IF failed_count > 0 THEN "partial"
                     ELSE IF total_artifacts > 0 THEN "completed"
                     ELSE "pending"
       IN [cs EXCEPT ![case_id].total_artifacts = total_artifacts,
                     ![case_id].total_file_size = Megabytes(SumSizes(ingestion_logs)),
                     ![case_id].ingestion_status = status]

NoOutcome == Outcome(FALSE, "", FileStats(ZeroStats, "unknown", 0), <<>>, <<>>)

\* what db.session.commit() does during an ingestion task.  "none": no commit
\* raises.  "first": the first commit of the task raises (and the commit of
\* start_ingestion_task's except branch then goes through); "first_handler":
\* that commit raises as well.  "last", "last_handler": the same for the
\* commit that follows process_uploaded_file.
CommitFaults == {"none", "first", "first_handler", "last", "last_handler"}

\* the log entry start_ingestion_task adds for file f, as its except branch
\* leaves it: committed is whether the commit of that branch went through
InterruptedLog(case_id, f, committed) ==
  [case_id |-> case_id, filename |-> Files[f].name,
   file_size |-> Megabytes(Files[f].size), artifact_type |-> "pending",
   status |-> IF committed THEN "failed" ELSE "pending",
   records_processed |-> 0,
   error_message |-> IF committed THEN ExcText ELSE ""]

\* a start_ingestion_task whose except branch commits outside a try of its
\* own: the exception of that commit leaves the call, which returns no value
start_ingestion_task_bare_handler(cs, tbls, schms, ls, case_id, f, faults, commit) ==
  IF case_id \notin DOMAIN cs
  THEN [cases |-> cs, tables |-> tbls, logs |-> ls, returned |-> <<FALSE>>,
        ran |-> FALSE, pf |-> NoOutcome]
  ELSE IF commit \in {"first", "first_handler"}
  THEN [cases |-> cs, tables |-> tbls,
        logs |-> IF commit = "first" THEN Append(ls, InterruptedLog(case_id, f, TRUE))
                 ELSE ls,
        returned |-> IF commit = "first" THEN <<FALSE>> ELSE <<>>,
        ran |-> FALSE, pf |-> NoOutcome]
  ELSE Bind(process_file(tbls, schms, cs, f, cs[case_id].case_uuid, faults),
            LAMBDA pf :
              IF commit \in {"last", "last_handler"}
              THEN [cases |-> cs, tables |-> pf.tables,
                    logs |-> Append(ls, InterruptedLog(case_id, f, commit = "last")),
                    returned |-> IF commit = "last" THEN <<FALSE>> ELSE <<>>,
                    ran |-> TRUE, pf |-> pf]
              ELSE Bind(Append(ls, [case_id |-> case_id, filename |-> Files[f].name,
                               file_size |-> Megabytes(Files[f].size),
                               artifact_type |-> pf.stats.artifact_type,
                               status |-> IF pf.success THEN "success" ELSE "failed",
                               records_processed |-> pf.stats.inserted_records,
                               error_message |-> IF pf.success THEN "" ELSE pf.message]),
                   LAMBDA ls2 :
                     [cases |-> update_case_statistics(cs, ls2, case_id),
                      tables |-> pf.tables, logs |-> ls2, returned |-> <<TRUE>>,
                      ran |-> TRUE, pf |-> pf]))

\* start_ingestion_task(case_id, file_path, filename, file_size) on the file f
\* stored at file_path: [cases, tables, logs, returned, ran, pf]; returned is
\* the tuple of the values the call returns.  An exception of a commit is
\* caught by the except branch, which returns False without
\* update_case_statistics.
start_ingestion_task(cs, tbls, schms, ls, case_id, f, faults, commit) ==
  IF case_id \notin DOMAIN cs
  THEN [cases |-> cs, tables |-> tbls, logs |-> ls, returned |-> <<FALSE>>,
        ran |-> FALSE, pf |-> NoOutcome]
  ELSE IF commit \in {"first", "first_handler"}
  THEN [cases |-> cs, tables |-> tbls,
        logs |-> IF commit = "first" THEN Append(ls, InterruptedLog(case_id, f, TRUE))
                 ELSE ls,
        returned |-> <<FALSE>>, ran |-> FALSE, pf |-> NoOutcome]
  ELSE Bind(process_file(tbls, schms, cs, f, cs[case_id].case_uuid, faults),
            LAMBDA pf :
              IF commit \in {"last", "last_handler"}
              THEN [cases |-> cs, tables |-> pf.tables,
                    logs |-> Append(ls, InterruptedLog(case_id, f, commit = "last")),
                    returned |-> <<FALSE>>, ran |-> TRUE, pf |-> pf]
              ELSE Bind(Append(ls, [case_id |-> case_id, filename |-> Files[f].name,
                               file_size |-> Megabytes(Files[f].size),
                               artifact_type |-> pf.stats.artifact_type,
                               status |-> IF pf.success THEN "success" ELSE "failed",
                               records_processed |-> pf.stats.inserted_records,
                               error_message |-> IF pf.success THEN "" ELSE pf.message]),
                   LAMBDA ls2 :
                     [cases |-> update_case_statistics(cs, ls2, case_id),
                      tables |-> pf.tables, logs |-> ls2, returned |-> <<TRUE>>,
                      ran |-> TRUE, pf |-> pf]))

\* 'uploads/<case_id>/<filename>', the path retry_failed_ingestion rebuilds
RetryPath(log_entry) == <<IntToStr(log_entry.case_id), log_entry.filename>>

\* retry_failed_ingestion(log_id): [cases, tables, logs, returned, ran, pf].
\* Its except branch holds no commit: when the commit that resets the entry
\* raises, the stored entry stays as it was; when the commit after
\* process_uploaded_file raises, the stored entry stays 'processing'.
retry_failed_ingestion(cs, tbls, schms, ls, ups, log_id, faults, commit) ==
  LET stay(message) ==
        [cases |-> cs, tables |-> tbls, logs |-> ls, returned |-> <<FALSE, message>>,
         ran |-> FALSE, pf |-> NoOutcome]
  IN IF log_id \notin 1..Len(ls) THEN stay("Ingestion log not found")
     ELSE IF ls[log_id].status # "failed" THEN stay("Can only retry failed ingestions")
     ELSE IF ls[log_id].case_id \notin DOMAIN cs THEN stay("Associated case not found")
     ELSE IF RetryPath(ls[log_id]) \notin DOMAIN ups THEN stay("Original file no longer exists")
     ELSE IF commit \in {"first", "first_handler"}
     THEN stay("Error retrying ingestion: " \o ExcText)
     ELSE Bind(process_file(tbls, schms, cs, ups[RetryPath(ls[log_id])],
                            cs[ls[log_id].case_id].case_uuid, faults),
               LAMBDA pf :
                 IF commit \in {"last", "last_handler"}
                 THEN [cases |-> cs, tables |-> pf.tables,
                       logs |-> [ls EXCEPT ![log_id] =
                                   [@ EXCEPT !.status = "processing", !.error_message = ""]],
                       returned |-> <<FALSE, "Error retrying ingestion: " \o ExcText>>,
                       ran |-> TRUE, pf |-> pf]
                 ELSE Bind([ls EXCEPT ![log_id] =
                         [@ EXCEPT !.status = IF pf.success THEN "success" ELSE "failed",
                                   !.artifact_type = pf.stats.artifact_type,
                                   !.records_processed = pf.stats.inserted_records,
                                   !.error_message = IF pf.success THEN "" ELSE pf.message]],
                      LAMBDA ls2 :
                        [cases |-> update_case_statistics(cs, ls2, ls[log_id].case_id),
                         tables |-> pf.tables, logs |-> ls2,
                         returned |-> <<pf.success, pf.message>>,
                         ran |-> TRUE, pf |-> pf]))

(***************************************************************************)
(* Entry points as actions                                                 *)
(***************************************************************************)
ReplaceChar(s, c, d) ==
  Join("", [i \in 1..Len(s) |-> IF CharAt(s, i) = c THEN d ELSE CharAt(s, i)])

\* a schema name that does not depend on the uuid drawn
SchemaNameShared(uuid) == "case_" \o ReplaceChar("shared", "-", "_")

\* f"case_{str(temp_uuid).replace('-', '_')}"
SchemaNameFor(uuid) == "case_" \o ReplaceChar(uuid, "-", "_")

NewCase(case_uuid, schema_name) ==
  [case_uuid |-> case_uuid, schema_name |-> schema_name, total_artifacts |-> 0,
   total_file_size |-> Megabytes(0), ingestion_status |-> "pending"]

Result(op, f, case_uuid, r) ==
  [op |-> op, file |-> f, case_uuid |-> case_uuid, returned |-> r.returned, ran |-> r.ran,
   success |-> r.pf.success, message |-> r.pf.message, stats |-> r.pf.stats,
   attempts |-> r.pf.attempts]

NoRun(returned) == [returned |-> returned, ran |-> FALSE, pf |-> NoOutcome]

Put(fn, k, v) == [x \in DOMAIN fn \cup {k} |-> IF x = k THEN v ELSE fn[x]]

\* routes/cases.py create_case: the case row and its namespace, then
\* start_ingestion_task for the files uploaded with the form (up is empty or
\* holds one file); schemaOk is what create_case_schema returns.  The
\* temp_uuid of a failed creation is stored nowhere, so the model draws it
\* again.
CreateCase(up, schemaOk, faults, commit) ==
  /\ Cardinality(DOMAIN cases) < MaxCases
  /\ draws + 2 <= Len(UuidPool)
  /\ up # <<>> => ops < OpsLimit
  /\ LET temp_schema_name == SchemaNameFor(UuidPool[draws + 1])
         id == case_seq + 1
         case_uuid == UuidPool[draws + 2]
         cases1 == Put(cases, id, NewCase(case_uuid, temp_schema_name))
         schemas1 == schemas \cup {temp_schema_name}
     IN IF ~schemaOk
        THEN /\ result' = Result("create_case", 0, "", NoRun(<<FALSE>>))
             /\ UNCHANGED <<cases, case_seq, schemas, tables, logs, uploads, ops, draws>>
        ELSE /\ draws' = draws + 2
             /\ case_seq' = id
             /\ schemas' = schemas1
             /\ IF up = <<>>
                THEN /\ cases' = cases1
                     /\ result' = Result("create_case", 0, case_uuid, NoRun(<<TRUE>>))
                     /\ UNCHANGED <<tables, logs, uploads, ops>>
                ELSE /\ Bind(start_ingestion_task(cases1, tables, schemas1, logs, id,
                                                  up[1], faults, commit),
                             LAMBDA r :
                               /\ cases' = r.cases
                               /\ tables' = r.tables
                               /\ logs' = r.logs
                               /\ result' = Result("create_case", up[1], case_uuid, r))
                     /\ uploads' = Put(uploads, <<IntToStr(id), Files[up[1]].name>>, up[1])
                     /\ ops' = ops + 1
  /\ UNCHANGED <<pool, calls, applied>>

\* routes/cases.py upload_artifacts: save the file under the case's upload
\* directory, then start_ingestion_task
UploadArtifacts(case_uuid, f, faults, commit) ==
  /\ ops < OpsLimit
  /\ CaseByUuid(cases, case_uuid) # {}
  /\ Bind(start_ingestion_task(cases, tables, schemas, logs,
                               CHOOSE c \in CaseByUuid(cases, case_uuid) : TRUE, f, faults,
                               commit),
          LAMBDA r :
            /\ cases' = r.cases
            /\ tables' = r.tables
            /\ logs' = r.logs
            /\ result' = Result("upload_artifacts", f, case_uuid, r))
  /\ uploads' = Put(uploads, <<case_uuid, Files[f].name>>, f)
  /\ ops' = ops + 1
  /\ UNCHANGED <<case_seq, schemas, pool, draws, calls, applied>>

\* utils/ingestion.py retry_failed_ingestion
RetryFailedIngestion(log_id, faults, commit) ==
  /\ ops < OpsLimit
  /\ Bind(retry_failed_ingestion(cases, tables, schemas, logs, uploads, log_id, faults,
                                 commit),
          LAMBDA r :
            /\ cases' = r.cases
            /\ tables' = r.tables
            /\ logs' = r.logs
            /\ ops' = IF r.ran THEN ops + 1 ELSE ops
            /\ result' = Result("retry_failed_ingestion",
                                IF r.ran THEN uploads[RetryPath(logs[log_id])] ELSE 0,
                                IF log_id \in 1..Len(logs) /\ logs[log_id].case_id \in DOMAIN cases
                                THEN cases[logs[log_id].case_id].case_uuid ELSE "",
                                r))
  /\ UNCHANGED <<case_seq, schemas, uploads, pool, draws, calls, applied>>

\* ingestion.py process_uploaded_file called directly on a file
ProcessUploadedFile(case_uuid, f, faults) ==
  /\ ops < OpsLimit
  /\ Bind(process_file(tables, schemas, cases, f, case_uuid, faults),
          LAMBDA pf :
            /\ tables' = pf.tables
            /\ result' = Result("process_uploaded_file", f, case_uuid,
                                [returned |-> <<pf.success, pf.message>>, ran |-> TRUE,
                                 pf |-> pf]))
  /\ ops' = ops + 1
  /\ UNCHANGED <<cases, case_seq, schemas, logs, uploads, pool, draws, calls, applied>>

FileId(name) == CHOOSE f \in MainIds : Files[f].name = name

\* no pure function is under test
NotApplied == [fn |-> "none", args |-> <<>>, n |-> 0, value |-> <<>>]

\* the files a behaviour has at hand for upload: any one file, or one of
\* these pairs of files that share a table
Pools ==
  {{f} : f \in FileIds} \cup
  {{FileId("processes.json"), FileId("data.json")},
   {FileId("firewall.json"), FileId("fw_v4.json")},
   {FileId("cron.json"), FileId("broken.json")}}

KnownUuids == {cases[c].case_uuid : c \in DOMAIN cases}

Init ==
  /\ cases = <<>>
  /\ case_seq = 0
  /\ schemas = {}
  /\ tables = <<>>
  /\ logs = <<>>
  /\ uploads = <<>>
  /\ pool \in Pools
  /\ draws = 0
  /\ ops = 0
  /\ result = Result("none", 0, "", NoRun(<<>>))
  /\ calls = <<>>
  /\ applied = NotApplied

\* the file retry_failed_ingestion would process for log_id, 0 when it
\* returns before process_file
RetryFile(log_id) ==
  IF /\ log_id \in 1..Len(logs)
     /\ logs[log_id].status = "failed"
     /\ logs[log_id].case_id \in DOMAIN cases
     /\ RetryPath(logs[log_id]) \in DOMAIN uploads
  THEN uploads[RetryPath(logs[log_id])] ELSE 0

Next ==
  \/ \E schemaOk \in BOOLEAN : CreateCase(<<>>, schemaOk, <<>>, "none")
  \/ \E f \in pool, schemaOk \in BOOLEAN : \E faults \in FaultsFor(f) :
       CreateCase(<<f>>, schemaOk, faults, "none")
  \/ \E u \in KnownUuids, f \in pool : \E faults \in FaultsFor(f) :
       UploadArtifacts(u, f, faults, "none")
  \/ \E log_id \in 1..(Len(logs) + 1) : \E faults \in FaultsFor(RetryFile(log_id)) :
       RetryFailedIngestion(log_id, faults, "none")
  \/ \E u \in KnownUuids \cup {UnknownUuid}, f \in pool : \E faults \in FaultsFor(f) :
       ProcessUploadedFile(u, f, faults)

Spec == Init /\ [][Next]_vars


(***************************************************************************)
(* Properties                                                              *)
(*                                                                         *)
(* result describes the entry point the last step ran: the file and case   *)
(* it was given, whether it reached process_file (ran) and what            *)
(* process_file returned.  A step's tables and tables' are the store       *)
(* before and after the call.                                              *)
(***************************************************************************)
\* the rows of tbls as <<table, position>> pairs
RowIds(tbls) == UNION {{<<p, i>> : i \in 1..Len(tbls[p].rows)} : p \in DOMAIN tbls}

\* the rows of tbls stored from record idx of file f
RowsFrom(tbls, f, idx) == {x \in RowIds(tbls) : tbls[x[1]].rows[x[2]].src = <<f, idx>>}

\* the rows of new that old does not have
NewRows(old, new) == RowIds(new) \ RowIds(old)

\* new has every table of old, with the same columns and the rows of old
\* at their positions
KeepsRows(old, new) ==
  \A p \in DOMAIN old :
    /\ p \in DOMAIN new
    /\ new[p].cols = old[p].cols
    /\ Len(new[p].rows) >= Len(old[p].rows)
    /\ SubSeq(new[p].rows, 1, Len(old[p].rows)) = old[p].rows

\* r reports a process_file call on a file of valid JSON and supported type
\* for a case of cs
Ingested(r, cs) ==
  /\ r.ran
  /\ Files[r.file].valid
  /\ DictHas(supported_artifacts, FileType[r.file])
  /\ CaseByUuid(cs, r.case_uuid) # {}

AllOk(attempts) == \A i \in 1..Len(attempts) : attempts[i].ok

\* C1: ingestion is idempotent: however often a file is processed for a
\* case (uploaded again, or retried after an attempt that inserted rows), no
\* table holds two rows stored from the same record of the same file.
C1_NoRowStoredTwice ==
  \A x, y \in RowIds(tables) :
    (x[1] = y[1] /\ tables[x[1]].rows[x[2]].src = tables[y[1]].rows[y[2]].src) => x = y

\* C2: whenever process_file fails because the bytes are not valid JSON, the
\* classified type is unsupported, or the case does not exist, it returns
\* success = false and the call creates no table and inserts no row in any
\* namespace.
C2_FileLevelFailureStoresNothing ==
  [][(/\ result'.ran
      /\ \/ ~Files[result'.file].valid
         \/ ~DictHas(supported_artifacts, FileType[result'.file])
         \/ CaseByUuid(cases', result'.case_uuid) = {})
     => (~result'.success /\ tables' = tables)]_vars

\* process_file failed on a file that is not valid JSON while the store
\* already held rows
C2_Witness ==
  /\ result.ran
  /\ ~Files[result.file].valid
  /\ ~result.success
  /\ RowIds(tables) # {}

\* the file is one whose records go through the insert loop of the raw-data
\* path or of the list path
LoopFile(f) ==
  /\ Files[f].valid
  /\ DictHas(supported_artifacts, FileType[f])
  /\ \/ /\ IsRawFile(f)
        /\ Truthy(StdoutOf(Files[f].data))
        /\ ~parse_raw_stdout_data(StdoutOf(Files[f].data), FileType[f]).raised
     \/ /\ ~IsRawFile(f)
        /\ FileType[f] \notin {"collection_summary", "firewallRules"}
        /\ IsList(Files[f].data)

\* the positions of the records the file yields, in source order
RecordPositions(f) ==
  IF IsRawFile(f)
  THEN [i \in 1..Len(parse_raw_stdout_data(StdoutOf(Files[f].data), FileType[f]).records) |-> i]
  ELSE SelectSeq([i \in 1..Len(Files[f].data[2]) |-> i],
                 LAMBDA i : IsDict(Files[f].data[2][i]))

\* C3: on the raw-data path and on the list path every record of the file
\* is handed to _insert_record exactly once, in source order, whatever the
\* earlier inserts returned; rows committed before a failing record stay
\* committed; stats.errors is the number of failed inserts and
\* stats.inserted_records the number of successful ones.
C3_RecordFailureNeverAbortsSiblings ==
  [][(Ingested(result', cases') /\ LoopFile(result'.file)) =>
       /\ [i \in 1..Len(result'.attempts) |-> result'.attempts[i].idx]
            = RecordPositions(result'.file)
       /\ result'.stats.errors = CountOk(result'.attempts, FALSE)
       /\ result'.stats.inserted_records = CountOk(result'.attempts, TRUE)
       /\ KeepsRows(tables, tables')
       /\ \A i \in 1..Len(result'.attempts) :
            Cardinality(RowsFrom(tables', result'.file, result'.attempts[i].idx))
              = Cardinality(RowsFrom(tables, result'.file, result'.attempts[i].idx))
                + (IF result'.attempts[i].ok THEN 1 ELSE 0)]_vars

\* a file whose first record failed to insert and whose later record was
\* inserted all the same
C3_Witness ==
  /\ Ingested(result, cases)
  /\ LoopFile(result.file)
  /\ \E i, j \in 1..Len(result.attempts) :
       i < j /\ ~result.attempts[i].ok /\ result.attempts[j].ok


\* the value a stored record holds under key, null when it has no such key
Field(rec, key) == IF DictHas(rec, key) THEN DictGet(rec, key) ELSE JNull

\* C4: ingesting the collection_summary file {collection_info: {hostname:
\* "h1"}} inserts exactly one row, the row holds hostname = "h1",
\* total_sections = 0, total_files = 0 and total_directories = 0, and
\* stats.inserted_records is 1.
C4_CollectionSummaryRow ==
  [][(/\ Ingested(result', cases')
      /\ result'.file = FileId("collection_summary.json")
      /\ result'.attempts # <<>>
      /\ AllOk(result'.attempts))
     => /\ result'.stats.inserted_records = 1
        /\ Cardinality(NewRows(tables, tables')) = 1
        /\ \A x \in NewRows(tables, tables') :
             LET rec == tables'[x[1]].rows[x[2]].rec
             IN /\ Field(rec, "hostname") = JStr("h1")
                /\ Field(rec, "total_sections") = JNum(0)
                /\ Field(rec, "total_files") = JNum(0)
                /\ Field(rec, "total_directories") = JNum(0)]_vars

\* the file is a firewallRules object with the sub-keys present and without
\* the sub-keys absent
FirewallFile(f, present, absent) ==
  /\ Files[f].valid
  /\ FileType[f] = "firewallRules"
  /\ IsDict(Files[f].data)
  /\ \A k \in present : DictHas(Files[f].data[2], k)
  /\ \A k \in absent : ~DictHas(Files[f].data[2], k)

\* C5: a firewallRules file with both iptables and ip6tables gets one insert
\* per sub-key: two rows and total_records = 2 when both inserts succeed,
\* and inserted_records = 1, errors = 1 and no total failure when exactly one
\* of the two fails.
C5_FirewallRowPerSubKey ==
  [][(/\ Ingested(result', cases')
      /\ FirewallFile(result'.file, {"iptables", "ip6tables"}, {}))
     => /\ Len(result'.attempts) = 2
        /\ AllOk(result'.attempts) =>
             /\ Cardinality(NewRows(tables, tables')) = 2
             /\ result'.stats.total_records = 2
        /\ CountOk(result'.attempts, FALSE) = 1 =>
             /\ result'.stats.inserted_records = 1
             /\ result'.stats.errors = 1
             /\ result'.success]_vars

\* C6: ingesting a firewallRules object with iptables and no ip6tables, when
\* the insert succeeds, inserts exactly one row and returns total_records =
\* 1, inserted_records = 1, errors = 0.
C6_FirewallIptablesOnly ==
  [][(/\ Ingested(result', cases')
      /\ FirewallFile(result'.file, {"iptables"}, {"ip6tables"})
      /\ result'.attempts # <<>>
      /\ AllOk(result'.attempts))
     => /\ Cardinality(NewRows(tables, tables')) = 1
        /\ NewRows(tables, tables') = RowsFrom(tables', result'.file, 1) \ RowIds(tables)
        /\ KeepsRows(tables, tables')
        /\ result'.stats.total_records = 1
        /\ result'.stats.inserted_records = 1
        /\ result'.stats.errors = 0]_vars

\* an iptables-only file went in with its one insert successful
C6_Witness ==
  /\ Ingested(result, cases)
  /\ FirewallFile(result.file, {"iptables"}, {"ip6tables"})
  /\ result.attempts # <<>>
  /\ AllOk(result.attempts)
  /\ RowsFrom(tables, result.file, 1) # {}

\* the types C7 and C8 speak of: supported, and neither collection_summary,
\* firewallRules nor a raw-data type
PlainFile(f) ==
  /\ Files[f].valid
  /\ DictHas(supported_artifacts, FileType[f])
  /\ FileType[f] \notin {"collection_summary", "firewallRules"}
  /\ ~IsRawFile(f)

\* C7: for every supported type other than collection_summary, firewallRules
\* and the raw-data types, a file whose top-level value is an object becomes
\* exactly one record: one insert is attempted and, when it succeeds, the
\* result is success with total_records = 1 and inserted_records = 1.
C7_ObjectIsOneRecord ==
  (/\ Ingested(result, cases)
   /\ PlainFile(result.file)
   /\ IsDict(Files[result.file].data))
  => /\ Len(result.attempts) = 1
     /\ result.attempts[1].ok =>
          /\ result.success
          /\ result.stats.total_records = 1
          /\ result.stats.inserted_records = 1

\* the number of elements of a list that are not objects
NonObjects(items) == Cardinality({i \in 1..Len(items) : ~IsDict(items[i])})

\* C8: in an array-shaped artifact every element that is not an object is
\* skipped and counted in stats.errors, so that total_records =
\* inserted_records + errors at return.
C8_ArrayTotalsAddUp ==
  (/\ Ingested(result, cases)
   /\ PlainFile(result.file)
   /\ IsList(Files[result.file].data))
  => /\ result.stats.errors >= NonObjects(Files[result.file].data[2])
     /\ result.stats.total_records
          = result.stats.inserted_records + result.stats.errors

\* the payload supplies no stdout string: an object without a stdout key or
\* with a stdout that is not a string, or a value that is neither an object
\* nor a string
NoStdoutString(data) == ~IsStr(StdoutOf(data))

\* what the raw-text parser finds in the stdout string of the payload
ParsedOf(f) == parse_raw_stdout_data(StdoutOf(Files[f].data), FileType[f])

\* C9: for every raw-data type, a payload that supplies no stdout string
\* makes ingestion return success = false, create no table and insert no
\* row.
C9_NoStdoutIsNoOpFailure ==
  [][(/\ Ingested(result', cases')
      /\ IsRawFile(result'.file)
      /\ NoStdoutString(Files[result'.file].data))
     => (~result'.success /\ tables' = tables)]_vars

\* success with nothing counted and nothing stored
SuccessfulNoOp(r, old, new) ==
  /\ r.success
  /\ r.stats.total_records = 0
  /\ r.stats.inserted_records = 0
  /\ r.stats.errors = 0
  /\ new = old

\* the file is of a raw-data type and its stdout is a string in which the
\* parser finds no line
ZeroLineFile(f) ==
  /\ Files[f].valid
  /\ DictHas(supported_artifacts, FileType[f])
  /\ IsRawFile(f)
  /\ IsStr(StdoutOf(Files[f].data))
  /\ ~ParsedOf(f).raised
  /\ ParsedOf(f).records = <<>>

\* C10 as stated: for every raw-data type, a stdout string in which the
\* parser finds zero lines, the empty string included, is ingested as a
\* successful no-op: success = true, total_records = inserted_records =
\* errors = 0, nothing inserted.
C10_ZeroLinesIsSuccess ==
  [][(Ingested(result', cases') /\ ZeroLineFile(result'.file))
     => SuccessfulNoOp(result', tables, tables')]_vars

\* C10 amended: a non-empty stdout string in which the parser finds zero
\* lines is ingested as a successful no-op; the empty string is reported as
\* a failure with errors = 1, and nothing is inserted either way.
C10_NonEmptyZeroLinesIsSuccess ==
  [][(Ingested(result', cases') /\ ZeroLineFile(result'.file))
     => IF StdoutOf(Files[result'.file].data) # JStr("")
        THEN SuccessfulNoOp(result', tables, tables')
        ELSE /\ ~result'.success
             /\ result'.stats.total_records = 0
             /\ result'.stats.inserted_records = 0
             /\ result'.stats.errors = 1
             /\ tables' = tables]_vars

\* a header with only short lines under it went in as a successful no-op
C10_Witness ==
  /\ Ingested(result, cases)
  /\ ZeroLineFile(result.file)
  /\ Contains(StdoutOf(Files[result.file].data)[2], "short line")
  /\ result.success
  /\ result.stats.total_records = 0

\* the logs of the case with the given statuses
LogsWith(case_id, statuses) ==
  {i \in 1..Len(logs) : logs[i].case_id = case_id /\ logs[i].status \in statuses}

C12_LogStatusOnlyLeavesPending ==
  [][\A i \in 1..Len(logs) :
       /\ i <= Len(logs')
       /\ logs'[i].status # logs[i].status =>
            (logs[i].status = "pending" /\ logs'[i].status \in {"success", "failed"})]_vars

\* C13: a table's column set is fixed when the provisioner creates it: a
\* table created by a call whose first record was inserted has the keys of
\* that record plus id and created_at as its columns; no later step adds,
\* removes or changes a column of an existing table; every stored row has
\* only keys that are columns, so a record with a key the table lacks is
\* never stored.
C13_ColumnsFixedAtCreation ==
  [][/\ \A p \in DOMAIN tables :
          p \in DOMAIN tables' /\ tables'[p].cols = tables[p].cols
     /\ \A p \in DOMAIN tables' \ DOMAIN tables :
          /\ {"id", "created_at"} \subseteq DOMAIN tables'[p].cols
          /\ (result'.attempts # <<>> /\ result'.attempts[1].ok) =>
               /\ tables'[p].rows[1].src = <<result'.file, result'.attempts[1].idx>>
               /\ DOMAIN tables'[p].cols =
                    DictKeys(tables'[p].rows[1].rec) \cup {"id", "created_at"}
     /\ \A p \in DOMAIN tables' : \A i \in 1..Len(tables'[p].rows) :
          DictKeys(tables'[p].rows[i].rec) \subseteq DOMAIN tables'[p].cols]_vars

\* data.json, whose record has the key tty, was ingested into a processes
\* table created from processes.json, which has no tty column: the record
\* was rejected and counted as an error, the table still lacks the column
C13_Witness ==
  /\ result.ran
  /\ result.file = FileId("data.json")
  /\ result.attempts = <<[idx |-> 1, ok |-> FALSE]>>
  /\ result.stats.errors = 1
  /\ \E p \in DOMAIN tables :
       /\ p[2] = "processes"
       /\ tables[p].rows # <<>>
       /\ \A i \in 1..Len(tables[p].rows) :
            tables[p].rows[i].src[1] = FileId("processes.json")
       /\ "tty" \notin DOMAIN tables[p].cols
       /\ CaseByUuid(cases, result.case_uuid) # {}
       /\ p[1] = cases[CHOOSE c \in CaseByUuid(cases, result.case_uuid) : TRUE].schema_name

\* the namespace of the case with this case_uuid
SchemaOf(cs, case_uuid) == cs[CHOOSE c \in CaseByUuid(cs, case_uuid) : TRUE].schema_name

\* C14: no two cases have the same namespace, and a process_file call for
\* case A leaves every table outside A's namespace as it was: it creates no
\* table and inserts no row there, and no table disappears.
C14_NamespacesIsolated ==
  [][/\ \A c, d \in DOMAIN cases' :
          cases'[c].schema_name = cases'[d].schema_name => c = d
     /\ DOMAIN tables \subseteq DOMAIN tables'
     /\ (result'.ran /\ CaseByUuid(cases', result'.case_uuid) # {}) =>
          \A p \in DOMAIN tables' :
            p[1] # SchemaOf(cases', result'.case_uuid) =>
              (p \in DOMAIN tables /\ tables'[p] = tables[p])]_vars

\* two cases each hold rows in a table of the same name, and the last call
\* stored rows for the second case
C14_Witness ==
  /\ result.ran
  /\ result.success
  /\ \E c, d \in DOMAIN cases :
       /\ c # d
       /\ cases[d].case_uuid = result.case_uuid
       /\ \E t \in {p[2] : p \in DOMAIN tables} :
            /\ <<cases[c].schema_name, t>> \in DOMAIN tables
            /\ <<cases[d].schema_name, t>> \in DOMAIN tables
            /\ tables[<<cases[c].schema_name, t>>].rows # <<>>
            /\ tables[<<cases[d].schema_name, t>>].rows # <<>>

(***************************************************************************)
(* Concurrent ingestions                                                   *)
(*                                                                         *)
(* app.py runs the server with threaded=True and every request has its own *)
(* database session, so two upload requests for one case run their         *)
(* process_file calls at the same time.  RaceSpec starts with a case and   *)
(* one start_ingestion_task per worker that has written its pending log    *)
(* and is about to enter the insert loop of _process_list_data; a step is  *)
(* one statement a session sends to the store: the existence check of      *)
(* _ensure_table_exists, its CREATE TABLE, the INSERT of _insert_record,    *)
(* and the writes that end start_ingestion_task.  calls[w] is the call of  *)
(* worker w: its file, the record it is at (k), its position (pc), its     *)
(* counters, and lost, the number of its records that failed because       *)
(* CREATE TABLE met a table another call had created after the check.      *)
(***************************************************************************)
\* requests served at the same time
MaxWorkers == 2

Workers == 1..MaxWorkers

\* the files the concurrent uploads are of
RaceFiles == {FileId("processes.json"), FileId("data.json"), FileId("cron.json")}

\* the case the concurrent uploads are for
RaceCase == 1

\* the records the loop of _process_list_data hands to _insert_record
CallRecords(f) == ListRecords(Files[f].data[2], DictGet(supported_artifacts, FileType[f]))

\* the <<schema, table>> a call on file f writes to
CallTable(f) == <<cases[RaceCase].schema_name, DictGet(supported_artifacts, FileType[f])>>

NewCall(f) ==
  [file |-> f, k |-> 1, pc |-> IF CallRecords(f) = <<>> THEN "done" ELSE "check",
   inserted |-> 0, errors |-> 0, lost |-> 0]

\* the log entry start_ingestion_task commits before it calls process_file
PendingLog(case_id, f) ==
  [case_id |-> case_id, filename |-> Files[f].name, file_size |-> Megabytes(Files[f].size),
   artifact_type |-> "pending", status |-> "pending", records_processed |-> 0,
   error_message |-> ""]

RaceInit ==
  /\ cases = Put(<<>>, RaceCase, NewCase(UuidPool[2], SchemaNameFor(UuidPool[1])))
  /\ case_seq = RaceCase
  /\ schemas = {SchemaNameFor(UuidPool[1])}
  /\ draws = 2
  /\ tables = <<>>
  /\ ops = 0
  /\ result = Result("none", 0, "", NoRun(<<>>))
  /\ applied = NotApplied
  /\ \E fs \in [Workers -> RaceFiles] :
       /\ calls = [w \in Workers |-> NewCall(fs[w])]
       /\ logs = [w \in Workers |-> PendingLog(RaceCase, fs[w])]
       /\ pool = {fs[w] : w \in Workers}
       /\ uploads = [x \in {<<UuidPool[2], Files[fs[w]].name>> : w \in Workers} |->
                       FileId(x[2])]

\* the call after _insert_record returned ok for its record
NextRecord(c, ok, lost) ==
  [c EXCEPT !.k = @ + 1,
            !.pc = IF c.k + 1 > Len(CallRecords(c.file)) THEN "done" ELSE "check",
            !.inserted = IF ok THEN @ + 1 ELSE @,
            !.errors = IF ok THEN @ ELSE @ + 1,
            !.lost = IF lost THEN @ + 1 ELSE @]

\* _ensure_table_exists: SELECT EXISTS (... information_schema.tables ...)
CheckTable(w) ==
  /\ calls[w].pc = "check"
  /\ calls' = [calls EXCEPT ![w].pc =
                 IF TableExists(tables, CallTable(calls[w].file)[1], CallTable(calls[w].file)[2])
                 THEN "insert" ELSE "create"]
  /\ UNCHANGED <<cases, case_seq, schemas, tables, logs, uploads, pool, draws, ops, result, applied>>

\* _ensure_table_exists: CREATE TABLE and commit.  When the table exists by
\* now the statement raises, _ensure_table_exists returns False and
\* _insert_record returns False without an INSERT.
CreateTable(w) ==
  /\ calls[w].pc = "create"
  /\ LET c == calls[w]
         t == CallTable(c.file)
     IN IF TableExists(tables, t[1], t[2])
        THEN /\ calls' = [calls EXCEPT ![w] = NextRecord(c, FALSE, TRUE)]
             /\ UNCHANGED tables
        ELSE /\ tables' = _ensure_table_exists(tables, schemas, t[1], t[2],
                                               CallRecords(c.file)[c.k].rec, "none").tables
             /\ calls' = [calls EXCEPT ![w].pc = "insert"]
  /\ UNCHANGED <<cases, case_seq, schemas, logs, uploads, pool, draws, ops, result, applied>>

\* _insert_record: INSERT and commit
InsertRow(w) ==
  /\ calls[w].pc = "insert"
  /\ LET c == calls[w]
         t == CallTable(c.file)
     IN Bind(_insert_record(tables, schemas, t[1], t[2], CallRecords(c.file)[c.k].rec,
                            "none", <<c.file, CallRecords(c.file)[c.k].idx>>),
             LAMBDA r :
               /\ tables' = r.tables
               /\ calls' = [calls EXCEPT ![w] = NextRecord(c, r.ok, FALSE)])
  /\ UNCHANGED <<cases, case_seq, schemas, logs, uploads, pool, draws, ops, result, applied>>

\* the end of _process_list_data and of start_ingestion_task: the result of
\* the call goes to its log entry, then update_case_statistics
Finish(w) ==
  /\ calls[w].pc = "done"
  /\ LET c == calls[w]
         total == Len(Files[c.file].data[2])
         success == c.inserted = total
         message == IF success
                    THEN "Successfully processed all " \o IntToStr(c.inserted) \o " records"
                    ELSE "Processed " \o IntToStr(c.inserted) \o "/" \o IntToStr(total)
                         \o " records with " \o IntToStr(c.errors) \o " errors"
         logs1 == [logs EXCEPT ![w] =
                     [@ EXCEPT !.status = IF success THEN "success" ELSE "failed",
                               !.artifact_type = FileType[c.file],
                               !.records_processed = c.inserted,
                               !.error_message = IF success THEN "" ELSE message]]
     IN /\ logs' = logs1
        /\ cases' = update_case_statistics(cases, logs1, RaceCase)
        /\ calls' = [calls EXCEPT ![w].pc = "returned"]
  /\ UNCHANGED <<case_seq, schemas, tables, uploads, pool, draws, ops, result, applied>>

RaceNext ==
  \/ \E w \in Workers : CheckTable(w)
  \/ \E w \in Workers : CreateTable(w)
  \/ \E w \in Workers : InsertRow(w)
  \/ \E w \in Workers : Finish(w)

RaceSpec == RaceInit /\ [][RaceNext]_vars

\* C15: two ingestions for the same case never interleave their
\* table-creation steps: no two calls are at CREATE TABLE for the same table
\* after both found it absent, and no record fails because the table was
\* created between its call's check and its CREATE TABLE.
C15_NoCheckThenCreateRace ==
  /\ \A v, w \in DOMAIN calls :
       (v # w /\ calls[v].pc = "create" /\ calls[w].pc = "create") =>
         CallTable(calls[v].file) # CallTable(calls[w].file)
  /\ \A w \in DOMAIN calls : calls[w].lost = 0

(***************************************************************************)
(* Pure functions applied to drawn inputs                                  *)
(*                                                                         *)
(* A specification of this section draws the arguments of one function in  *)
(* its initial state and calls the function on them, up to MaxCalls times; *)
(* applied holds the arguments, the number of calls made and the value the *)
(* last call returned.  The store is empty and no request is served.       *)
(***************************************************************************)
\* calls of the function under test per behaviour
MaxCalls == 2

Idle ==
  /\ cases = <<>>
  /\ case_seq = 0
  /\ schemas = {}
  /\ tables = <<>>
  /\ logs = <<>>
  /\ uploads = <<>>
  /\ pool = {}
  /\ draws = 0
  /\ ops = 0
  /\ result = Result("none", 0, "", NoRun(<<>>))
  /\ calls = <<>>

Rest == <<cases, case_seq, schemas, tables, logs, uploads, pool, draws, ops, result, calls>>

\* the arguments drawn for function fn, before its first call
Drawn(fn, args, none) == [fn |-> fn, args |-> args, n |-> 0, value |-> none]

\* filenames that match no rule, one rule, or several rules
ClassifyNames ==
  {"", "x", "notes.json", "data.json", "collection_summary.json",
   "collection_metadata_summary.json", "UserAccounts.json", "user_accounts_processes.json",
   "processes_network_connections.json", "network_connections.json", "network.json",
   "systemd_log.json", "system_log.json", "auth_system_log.json", "auth.json",
   "browsinghistory_data.json", "history.json", "firewall_packages.json", "env_cron.json",
   "filesystemstats.json", "filesystemtypes.json", "file_system.json",
   "mountedFilesystems.json", "cifsMounts.json", "interfaces.json", "environment.json",
   "arp_cache.json", "blockdevices.json", "Boot.JSON", "boot.txt", "btmp_log.json",
   "connection_tracking.json", "cpu.json", "critical_files.json", "arptableraw.json",
   "diskusage.json", "fdisk.json", "group_accounts.json", "homedirectories.json",
   "install_records.json", "kern.json", "kern_logs_kernel_modules.json",
   "kernel_modules.json"}

\* values json.load can return: no shape rule, one shape rule, several
ClassifyData ==
  {JNull, JNum(5), JBool(TRUE), JStr("pid"), JObj(<<>>), Obj1("a", JNum(1)),
   Obj1("collection_info", JObj(<<>>)), Obj1("iptables", JNull), Obj1("ip6tables", JNull),
   JObj(<< <<"iptables", JNull>>, <<"collection_info", JNull>> >>),
   JList(<<>>), JList(<<JNum(1)>>), JList(<<JStr("pid")>>),
   JList(<<JNum(1), Obj1("pid", JNum(1))>>),
   JList(<<JObj(<<>>)>>), JList(<<Obj1("other", JNum(1))>>),
   JList(<<Obj1("username", JStr("root"))>>),
   JList(<<JObj(<< <<"pid", JNum(1)>>, <<"uid", JNum(0)>> >>)>>),
   JList(<<Obj1("pid", JNum(1))>>), JList(<<Obj1("command", JStr("sh"))>>),
   JList(<<Obj1("url", JStr("u"))>>),
   JList(<<JObj(<< <<"title", JStr("t")>>, <<"url", JStr("u")>> >>)>>),
   JList(<<Obj1("local_address", JStr("a"))>>), JList(<<Obj1("remote_address", JStr("a"))>>),
   JList(<<Obj1("service_name", JStr("s"))>>), JList(<<Obj1("unit_name", JStr("s"))>>),
   JList(<<Obj1("other", JNum(1)), Obj1("pid", JNum(1))>>)}

ClassifyInit ==
  /\ Idle
  /\ applied \in {Drawn("_determine_artifact_type", <<name, data>>, "") :
                    name \in ClassifyNames, data \in ClassifyData}

\* processor._determine_artifact_type(filename, data)
Classify ==
  /\ applied.fn = "_determine_artifact_type"
  /\ applied.n < MaxCalls
  /\ applied' = [applied EXCEPT
                   !.n = @ + 1,
                   !.value = _determine_artifact_type(applied.args[1], applied.args[2])]
  /\ UNCHANGED Rest

ClassifySpec == ClassifyInit /\ [][Classify]_vars

\* the filename rules that match the lower-cased filename, by position
MatchingRules(filename) ==
  {i \in 1..Len(FilenameRules) : RuleMatches(FilenameRules[i], Lower(filename))}

\* some data-structure rule matches data
ShapeRuleMatches(data) ==
  \/ /\ IsDict(data)
     /\ \E k \in {"collection_info", "iptables", "ip6tables"} : DictHas(data[2], k)
  \/ /\ IsList(data)
     /\ Len(data[2]) > 0
     /\ IsDict(data[2][1])
     /\ LET keys == DictKeys(data[2][1][2])
        IN \/ keys \cap {"username", "uid", "pid", "command", "local_address",
                         "remote_address", "service_name", "unit_name"} # {}
           \/ {"url", "title"} \subseteq keys

\* C16: the classifier returns a tag for every (filename, data) pair: the
\* tag of the first filename rule that matches, in the order of the rules;
\* the tag of the data-structure rules only when no filename rule matches;
\* 'unknown' exactly when no filename rule and no data-structure rule
\* matches; and the same tag when it is called again on the same pair.
C16_ClassifierFirstMatch ==
  [][(applied'.fn = "_determine_artifact_type" /\ applied'.n > 0) =>
       LET filename == applied'.args[1]
           data == applied'.args[2]
           tag == applied'.value
       IN /\ tag \in {FilenameRules[i][1] : i \in 1..Len(FilenameRules)} \cup {"unknown"}
          /\ \A i \in MatchingRules(filename) :
               (\A j \in MatchingRules(filename) : i <= j) => tag = FilenameRules[i][1]
          /\ MatchingRules(filename) = {} => tag = ShapeType(data)
          /\ tag = "unknown" <=> (MatchingRules(filename) = {} /\ ~ShapeRuleMatches(data))
          /\ applied.n > 0 => tag = applied.value]_vars

\* systemd_log.json, which matches the rules of systemdServices and of
\* systemLogs, was classified twice with data the processes rule matches,
\* and is systemdServices
C16_Witness ==
  /\ applied.fn = "_determine_artifact_type"
  /\ applied.n = 2
  /\ applied.args = <<"systemd_log.json", JList(<<Obj1("pid", JNum(1))>>)>>
  /\ Cardinality(MatchingRules(applied.args[1])) = 2
  /\ ShapeRuleMatches(applied.args[2])
  /\ applied.value = "systemdServices"

\* lines of a garbage input
MaxLines == 2

\* single tokens, among them the words the parsers test lines for
GarbageTokens == {"x", "nodev", "Address", "NAME", "Filesystem", "Disk", "/dev/sda1", "12%"}

\* whitespace put before and after each token of an input
Paddings == {<<"", "">>, <<" ", "">>, <<"", "\t">>}

\* the text whose lines are the tokens, each with the padding around it
GarbageText(tokens, pad) ==
  Join("\n", [i \in 1..Len(tokens) |-> pad[1] \o tokens[i] \o pad[2]])

\* the arguments are stdout_content, artifact_type and the tokens the
\* content was made of
ParseRawInit ==
  /\ Idle
  /\ applied \in
       {Drawn("parse_raw_stdout_data", <<JStr(""), RawTypes[t], <<>> >>, <<>>) :
          t \in 1..Len(RawTypes)}
       \cup
       {Drawn("parse_raw_stdout_data",
              <<JStr(GarbageText(x[1], x[2])), RawTypes[x[3]], x[1]>>, <<>>) :
          x \in (UNION {[1..n -> GarbageTokens] : n \in 1..MaxLines})
                  \X Paddings \X (1..Len(RawTypes))}

\* parse_raw_stdout_data(stdout_content, artifact_type)
ParseRaw ==
  /\ applied.fn = "parse_raw_stdout_data"
  /\ applied.n < MaxCalls
  /\ applied' = [applied EXCEPT
                   !.n = @ + 1,
                   !.value = parse_raw_stdout_data(applied.args[1], applied.args[2])]
  /\ UNCHANGED Rest

ParseRawSpec == ParseRawInit /\ [][ParseRaw]_vars

\* C17: for every raw-data artifact type parse_raw_stdout_data returns the
\* empty list, without raising, for the empty string and for any input made
\* only of single-token lines.
C17_GarbageParsesToNothing ==
  (applied.fn = "parse_raw_stdout_data" /\ applied.n > 0) =>
    applied.value = [raised |-> FALSE, records |-> <<>>]

\* the types whose parser takes a line of one token for a record
OneTokenTypes == {"connectionTracking", "filesystemTypes"}

\* the record the parser of a type in OneTokenTypes makes of a one-token line
OneTokenRecord(artifact_type, token) ==
  IF artifact_type = "connectionTracking" THEN << <<"raw_line", JStr(token)>> >>
  ELSE IF token = "nodev"
  THEN << <<"filesystem_type", JStr("")>>, <<"nodev", JBool(TRUE)>> >>
  ELSE << <<"filesystem_type", JStr(token)>>, <<"nodev", JBool(FALSE)>> >>

\* C17 as amended: parse_raw_stdout_data never raises on the empty string
\* or on single-token lines; it returns the empty list for the empty string
\* for every raw-data type, and for single-token lines for arpTableRaw,
\* blockDevices, disk_usage, fdisk and filesystemStats; for
\* connectionTracking and filesystemTypes it returns one record per line.
C17_GarbageParsesPerType ==
  (applied.fn = "parse_raw_stdout_data" /\ applied.n > 0) =>
    /\ ~applied.value.raised
    /\ applied.value.records =
         (IF applied.args[2] \in OneTokenTypes
          THEN [i \in 1..Len(applied.args[3]) |->
                  OneTokenRecord(applied.args[2], applied.args[3][i])]
          ELSE <<>>)

\* fdisk output of two padded one-token lines, the first the word Disk, was
\* parsed to the empty list
C17_Witness ==
  /\ applied.fn = "parse_raw_stdout_data"
  /\ applied.n > 0
  /\ applied.args = <<JStr(" Disk\n /dev/sda1"), "fdisk", <<"Disk", "/dev/sda1">> >>
  /\ applied.value = [raised |-> FALSE, records |-> <<>>]

\* artifact types without an entry in FIELD_FILTERS
UnregisteredTypes == {"unknown", "notes", ""}

\* the keys the drawn records of a type choose from: the first and the last
\* field the registry allows for the type, and two it may not allow
CandidateKeys(artifact_type) ==
  <<"id", "extra">> \o
  (IF DictHas(FIELD_FILTERS, artifact_type) /\ get_allowed_fields(artifact_type) # <<>>
   THEN <<get_allowed_fields(artifact_type)[1],
          get_allowed_fields(artifact_type)[Len(get_allowed_fields(artifact_type))]>>
   ELSE <<"pid", "command">>)

\* the value a drawn record holds at its i-th candidate key
CandidateValue(i) ==
  CASE i = 1 -> JNum(7)
    [] i = 2 -> JList(<<JNum(1), JNull>>)
    [] i = 3 -> JStr("v")
    [] OTHER -> Obj1("k", JBool(FALSE))

\* the record with the candidate keys at the positions of picks, in
\* candidate order
DrawnRecord(artifact_type, picks) ==
  LET F[n \in 0..Len(CandidateKeys(artifact_type))] ==
        IF n = 0 THEN <<>>
        ELSE IF n \in picks /\ ~DictHas(F[n - 1], CandidateKeys(artifact_type)[n])
        THEN Append(F[n - 1], <<CandidateKeys(artifact_type)[n], CandidateValue(n)>>)
        ELSE F[n - 1]
  IN F[Len(CandidateKeys(artifact_type))]

FilterInit ==
  /\ Idle
  /\ applied \in
       {Drawn("filter_record_fields", <<JObj(DrawnRecord(t, picks)), t>>, <<>>) :
          t \in {FIELD_FILTERS[i][1] : i \in 1..Len(FIELD_FILTERS)} \cup UnregisteredTypes,
          picks \in SUBSET (1..4)}

\* filter_record_fields(record, artifact_type)
Filter ==
  /\ applied.fn = "filter_record_fields"
  /\ applied.n < MaxCalls
  /\ applied' = [applied EXCEPT
                   !.n = @ + 1,
                   !.value = filter_record_fields(applied.args[1], applied.args[2])]
  /\ UNCHANGED Rest

FilterSpec == FilterInit /\ [][Filter]_vars

\* the fields the registry allows for the type, as a set
AllowedSet(artifact_type) ==
  {get_allowed_fields(artifact_type)[i] : i \in 1..Len(get_allowed_fields(artifact_type))}

\* C18: for a type with a registry entry filter_record_fields returns a
\* record whose keys are exactly the keys of the input that the type
\* allows, each once and with the value the input holds; for a type without
\* an entry it returns the input record.
C18_FilterRestrictsToAllowed ==
  (applied.fn = "filter_record_fields" /\ applied.n > 0) =>
    LET record == applied.args[1][2]
        artifact_type == applied.args[2]
        out == applied.value
    IN /\ ~out.raised
       /\ IF DictHas(FIELD_FILTERS, artifact_type)
          THEN /\ IsDict(out.value)
               /\ DictKeys(out.value[2]) = DictKeys(record) \cap AllowedSet(artifact_type)
               /\ Len(out.value[2]) = Cardinality(DictKeys(out.value[2]))
               /\ \A k \in DictKeys(out.value[2]) :
                    DictGet(out.value[2], k) = DictGet(record, k)
          ELSE out.value = JObj(record)

\* a record with keys the type allows and keys it does not was filtered
\* down to the allowed ones
C18_Witness ==
  /\ applied.fn = "filter_record_fields"
  /\ applied.n > 0
  /\ DictHas(FIELD_FILTERS, applied.args[2])
  /\ DictKeys(applied.args[1][2]) \cap AllowedSet(applied.args[2]) # {}
  /\ DictKeys(applied.args[1][2]) \ AllowedSet(applied.args[2]) # {}
  /\ DictKeys(applied.value.value[2]) = DictKeys(applied.args[1][2]) \cap AllowedSet(applied.args[2])

\* the string of n copies of s
RECURSIVE Repeat(_, _)
Repeat(s, n) ==
  IF n = 0 THEN ""
  ELSE IF n % 2 = 1 THEN s \o Repeat(s, n - 1)
  ELSE Bind(Repeat(s, n \div 2), LAMBDA half : half \o half)

\* null, booleans, numbers and strings, the strings up to one character
\* past the length the normalizer truncates at
ScalarValues ==
  <<JNull, JBool(TRUE), JBool(FALSE), JNum(0), JNum(-3), JStr(""), JStr("v"),
    JStr(Repeat("a", MaxTextLen)), JStr(Repeat("a", MaxTextLen) \o "b")>>

\* the record with the candidate keys at the positions of picks, the key at
\* position n holding the scalar at position n + shift
ScalarRecord(artifact_type, picks, shift) ==
  LET F[n \in 0..Len(CandidateKeys(artifact_type))] ==
        IF n = 0 THEN <<>>
        ELSE IF n \in picks /\ ~DictHas(F[n - 1], CandidateKeys(artifact_type)[n])
        THEN Append(F[n - 1], <<CandidateKeys(artifact_type)[n],
                                ScalarValues[((n + shift) % Len(ScalarValues)) + 1]>>)
        ELSE F[n - 1]
  IN F[Len(CandidateKeys(artifact_type))]

PrepareInit ==
  /\ Idle
  /\ applied \in
       {Drawn("_prepare_record_for_insertion", <<ScalarRecord(t, picks, shift), t>>, <<>>) :
          t \in {FIELD_FILTERS[i][1] : i \in 1..Len(FIELD_FILTERS)}
                  \cup (UnregisteredTypes \ {""}),
          picks \in SUBSET (1..4), shift \in 1..Len(ScalarValues)}

\* processor._prepare_record_for_insertion(record, artifact_type), the
\* first call on the record drawn, a later call on the record the call
\* before returned
Prepare ==
  /\ applied.fn = "_prepare_record_for_insertion"
  /\ applied.n < MaxCalls
  /\ applied' = [applied EXCEPT
                   !.n = @ + 1,
                   !.value = _prepare_record_for_insertion(
                               IF applied.n = 0 THEN applied.args[1] ELSE applied.value,
                               applied.args[2])]
  /\ UNCHANGED Rest

PrepareSpec == PrepareInit /\ [][Prepare]_vars

\* C19: on a record whose values are null, booleans, numbers or strings,
\* _prepare_record_for_insertion applied to its own result, under the same
\* artifact type, returns that result.
C19_NormalizerIdempotent ==
  [][(applied'.fn = "_prepare_record_for_insertion" /\ applied.n >= 1) =>
       applied'.value = applied.value]_vars

\* a record with a key its type does not allow and a string longer than
\* MaxTextLen was normalized twice: the key is gone and the string is
\* MaxTextLen long
C19_Witness ==
  /\ applied.fn = "_prepare_record_for_insertion"
  /\ applied.n = 2
  /\ DictKeys(applied.args[1]) \ DictKeys(applied.value) # {}
  /\ \E k \in DictKeys(applied.value) :
       /\ IsStr(DictGet(applied.args[1], k))
       /\ Len(DictGet(applied.args[1], k)[2]) = MaxTextLen + 1
       /\ DictGet(applied.value, k) = JStr(Repeat("a", MaxTextLen))

(***************************************************************************)
(* Ingestion tasks under storage failures                                  *)
(*                                                                         *)
(* The entry points of Spec, run with commits that raise as well as with   *)
(* _ensure_table_exists and INSERT statements that raise, on files that    *)
(* take each path of process_file.                                         *)
(***************************************************************************)
\* a raw-data file on which parse_raw_stdout_data raises (its stdout is a list)
RaisingRawFile ==
  CHOOSE f \in FileIds :
    /\ Files[f].name = "blockdevices.json"
    /\ Files[f].data = Obj1("stdout", JList(<<JStr("lo")>>))

\* a raw-data file whose stdout parses into records
GoodRawFile ==
  CHOOSE f \in FileIds :
    /\ Files[f].name = "filesystemtypes.json"
    /\ Files[f].data = JStr(GoodText("filesystemTypes"))

CommitPools ==
  {{FileId("data.json")}, {FileId("cron.json")}, {FileId("broken.json")},
   {FileId("notes.json")}, {FileId("useraccounts.json")},
   {RaisingRawFile}, {GoodRawFile}}

CommitInit ==
  /\ cases = <<>>
  /\ case_seq = 0
  /\ schemas = {}
  /\ tables = <<>>
  /\ logs = <<>>
  /\ uploads = <<>>
  /\ pool \in CommitPools
  /\ draws = 0
  /\ ops = 0
  /\ result = Result("none", 0, "", NoRun(<<>>))
  /\ calls = <<>>
  /\ applied = NotApplied

CommitNext ==
  \/ \E schemaOk \in BOOLEAN : CreateCase(<<>>, schemaOk, <<>>, "none")
  \/ \E f \in pool, schemaOk \in BOOLEAN, commit \in CommitFaults :
       \E faults \in FaultsFor(f) : CreateCase(<<f>>, schemaOk, faults, commit)
  \/ \E u \in KnownUuids, f \in pool, commit \in CommitFaults :
       \E faults \in FaultsFor(f) : UploadArtifacts(u, f, faults, commit)
  \/ \E log_id \in 1..(Len(logs) + 1), commit \in CommitFaults :
       \E faults \in FaultsFor(RetryFile(log_id)) :
         RetryFailedIngestion(log_id, faults, commit)
  \/ \E u \in KnownUuids \cup {UnknownUuid}, f \in pool : \E faults \in FaultsFor(f) :
       ProcessUploadedFile(u, f, faults)

CommitSpec == CommitInit /\ [][CommitNext]_vars

StatsKeys == {"total_records", "inserted_records", "errors", "artifact_type", "file_size"}

\* the last entry point called start_ingestion_task
RanStartIngestionTask ==
  result.op \in {"create_case", "upload_artifacts"} /\ result.file # 0

\* C20: no failure leaves an entry point as an exception.  Whatever the file
\* and whichever of the table check, the table creation, an INSERT or a
\* commit raises, process_file hands back a success flag, a message and a
\* stats dict with its five keys, start_ingestion_task returns one boolean,
\* and retry_failed_ingestion returns a boolean and a message.
C20_NoFailureEscapes ==
  /\ result.ran =>
       /\ result.success \in BOOLEAN
       /\ result.message # ""
       /\ DOMAIN result.stats = StatsKeys
       /\ result.stats.errors \in Nat
       /\ result.stats.inserted_records \in Nat
  /\ RanStartIngestionTask =>
       /\ Len(result.returned) = 1
       /\ result.returned[1] \in BOOLEAN
  /\ result.op = "retry_failed_ingestion" =>
       /\ Len(result.returned) = 2
       /\ result.returned[1] \in BOOLEAN
       /\ result.returned[2] # ""
  /\ result.op = "process_uploaded_file" =>
       result.returned = <<result.success, result.message>>

\* start_ingestion_task has run process_file with a failing INSERT, then its
\* commit and the commit of its except branch both raised: the entry is left
\* 'pending' and the call returned False
C20_Witness ==
  /\ RanStartIngestionTask
  /\ result.ran
  /\ result.stats.errors > 0
  /\ result.returned = <<FALSE>>
  /\ logs # <<>>
  /\ logs[Len(logs)].status = "pending"

(***************************************************************************)
(* Namespace naming                                                        *)
(***************************************************************************)
\* utils/db_utils.py create_case_schema / drop_case_schema:
\* f"case_{case_uuid.replace('-', '_')}"
SchemaNameOfCase(case_uuid) == "case_" \o ReplaceChar(case_uuid, "-", "_")

\* C21: the namespace of every case is the name derived from the case's
\* identifier: schema_name is 'case_' followed by the case_uuid with hyphens
\* replaced by underscores.
C21_NamespaceDerivedFromIdentifier ==
  \A c \in DOMAIN cases : cases[c].schema_name = SchemaNameOfCase(cases[c].case_uuid)

(***************************************************************************)
(* Case deletion (routes/cases.py delete_case)                             *)
(***************************************************************************)
\* hexadecimal digits in the text of a uuid (32 in uuid.UUID; UuidPool holds
\* uuids of four)
UuidDigits == 4

HexChars == "0123456789abcdefABCDEF"

\* UUID(case_id) returns a value: it raises ValueError on any other text
IsUuidText(s) ==
  LET h == RemoveChar(s, "-")
  IN Len(h) = UuidDigits /\ \A i \in 1..Len(h) : Contains(HexChars, CharAt(h, i))

\* Case.query.get(ident): the rows whose primary key equals ident.  The
\* primary key of cases is the integer column id; ident is <<kind, value>>,
\* and a value of one kind equals no value of another.
QueryGet(cs, ident) == {c \in DOMAIN cs : ident[1] = "int" /\ ident[2] = c}

\* IngestionLog.query.filter_by(case_id=key): the positions of the logs whose
\* integer column case_id equals key
LogsByCaseId(ls, key) == {i \in 1..Len(ls) : key[1] = "int" /\ ls[i].case_id = key[2]}

RECURSIVE WithoutLogs(_, _, _)
WithoutLogs(ls, drop, i) ==
  IF i > Len(ls) THEN <<>>
  ELSE (IF i \in drop THEN <<>> ELSE <<ls[i]>>) \o WithoutLogs(ls, drop, i + 1)

\* database.py drop_case_schema when the drop goes through: the namespace
\* and every table in it are gone
DropSchema(tbls, schema_name) ==
  [k \in {x \in DOMAIN tbls : x[1] # schema_name} |-> tbls[k]]

\* what delete_case leaves for its caller: the category of the message it
\* flashes before it redirects
Flashed(case_id, category) ==
  [Result("delete_case", 0, case_id, NoRun(<<>>)) EXCEPT !.message = category]

\* routes/cases.py delete_case(case_id): case_id is the text of the URL,
\* dropOk is what drop_case_schema returns.  The case is looked up by primary
\* key with the UUID made of case_id, the logs are deleted by case_id =
\* case_id (the text), then the case is deleted and the session committed
\* (a log that still refers to the case makes the commit raise), and only
\* then is the namespace dropped.  Every exception ends in rollback and the
\* 'error' flash.
DeleteCase(case_id, dropOk) ==
  LET found == IF IsUuidText(case_id) THEN QueryGet(cases, <<"uuid", case_id>>) ELSE {}
      error == /\ result' = Flashed(case_id, "error")
               /\ UNCHANGED <<cases, schemas, tables, logs>>
  IN /\ IF found = {} THEN error
        ELSE LET c == CHOOSE x \in found : TRUE
                 kept == WithoutLogs(logs, LogsByCaseId(logs, <<"str", case_id>>), 1)
             IN IF \E i \in 1..Len(kept) : kept[i].case_id = c THEN error
                ELSE /\ cases' = [x \in DOMAIN cases \ {c} |-> cases[x]]
                     /\ logs' = kept
                     /\ IF dropOk
                        THEN /\ schemas' = schemas \ {cases[c].schema_name}
                             /\ tables' = DropSchema(tables, cases[c].schema_name)
                             /\ result' = Flashed(case_id, "success")
                        ELSE /\ UNCHANGED <<schemas, tables>>
                             /\ result' = Flashed(case_id, "warning")
     /\ UNCHANGED <<case_seq, uploads, pool, draws, ops, calls, applied>>

\* the texts a delete request carries: the uuid of a case, a uuid no case
\* has, the id of a case as create_case's redirect writes it
DeleteIds == KnownUuids \cup {UnknownUuid} \cup {IntToStr(c) : c \in DOMAIN cases}

DeleteNext ==
  \/ \E schemaOk \in BOOLEAN : CreateCase(<<>>, schemaOk, <<>>, "none")
  \/ \E f \in pool, schemaOk \in BOOLEAN : \E faults \in FaultsFor(f) :
       CreateCase(<<f>>, schemaOk, faults, "none")
  \/ \E u \in KnownUuids, f \in pool : \E faults \in FaultsFor(f) :
       UploadArtifacts(u, f, faults, "none")
  \/ \E case_id \in DeleteIds, dropOk \in BOOLEAN : DeleteCase(case_id, dropOk)

DeleteSpec == Init /\ [][DeleteNext]_vars

MaxFdiskLines == 4

\* the lines a drawn listing is made of: 'Disk /' headers (the last one cut
\* short after the path), metadata lines, partition lines.  value is what the
\* line tells: <<disk_path, disk_size>> for a header, the text after the
\* colon for a metadata line, the device for a partition line.
FdiskLinePool == <<
  [kind |-> "header", text |-> "Disk /dev/sda: 20 GiB, 2147 bytes, 4194 sectors",
   value |-> <<"/dev/sda", "20 GiB">>],
  [kind |-> "header", text |-> "Disk /dev/sdb: 5 GiB, 536 bytes, 1048 sectors",
   value |-> <<"/dev/sdb", "5 GiB">>],
  [kind |-> "header", text |-> "Disk /dev/sdc: 1GiB",
   value |-> <<"/dev/sdc", "1GiB">>],
  [kind |-> "sector_size", text |-> "Sector size (logical/physical): 512 bytes / 4096 bytes",
   value |-> <<"512 bytes / 4096 bytes">>],
  [kind |-> "disklabel_type", text |-> "Disklabel type: gpt", value |-> <<"gpt">>],
  [kind |-> "disk_identifier", text |-> "Disk identifier: 0xabcd", value |-> <<"0xabcd">>],
  [kind |-> "partition", text |-> "/dev/sda1 * 2048 4095 2048 1M 83 Linux",
   value |-> <<"/dev/sda1">>],
  [kind |-> "partition", text |-> "/dev/sdb1 2048 4095 2048 1M 8e Linux LVM",
   value |-> <<"/dev/sdb1">>]
>>

FdiskListings == UNION {[1..n -> 1..Len(FdiskLinePool)] : n \in 1..MaxFdiskLines}

FdiskText(listing) ==
  Join("\n", [i \in 1..Len(listing) |-> FdiskLinePool[listing[i]].text])

\* the arguments are stdout_content, artifact_type and the listing the
\* content was made of
FdiskInit ==
  /\ Idle
  /\ applied \in
       {Drawn("parse_raw_stdout_data", <<JStr(FdiskText(l)), "fdisk", l>>, <<>>) :
          l \in FdiskListings}

FdiskSpec == FdiskInit /\ [][ParseRaw]_vars

\* the positions of the lines of a kind in a listing
LinesOfKind(listing, kind) ==
  {i \in 1..Len(listing) : FdiskLinePool[listing[i]].kind = kind}

\* the position of the last line of a kind between positions lo and hi of a
\* listing (both excluded), 0 when there is none
LastOfKind(listing, kind, lo, hi) ==
  LET S == {i \in LinesOfKind(listing, kind) : lo < i /\ i < hi}
  IN IF S = {} THEN 0 ELSE CHOOSE i \in S : \A j \in S : j <= i

\* what a metadata line of a kind told since the header at position h and
\* before position i, '' when none did
MetadataSince(listing, kind, h, i) ==
  IF LastOfKind(listing, kind, h, i) = 0 THEN ""
  ELSE FdiskLinePool[listing[LastOfKind(listing, kind, h, i)]].value[1]

\* the k-th smallest element of a set of numbers
RECURSIVE Nth(_, _)
Nth(S, k) ==
  LET m == CHOOSE x \in S : \A y \in S : x <= y
  IN IF k = 1 THEN m ELSE Nth(S \ {m}, k - 1)

\* C23: the fdisk parser emits one record per partition line, in line order,
\* and the record of a partition line that follows a 'Disk /' header carries
\* the disk_path and disk_size of the most recent such header and the
\* sector_size, disklabel_type and disk_identifier told by the metadata
\* lines since that header, never those of an earlier disk.
C23_PartitionCarriesCurrentDisk ==
  (applied.fn = "parse_raw_stdout_data" /\ applied.n > 0) =>
    LET listing == applied.args[3]
        parts == LinesOfKind(listing, "partition")
        records == applied.value.records
    IN /\ ~applied.value.raised
       /\ Len(records) = Cardinality(parts)
       /\ \A k \in 1..Len(records) :
            LET i == Nth(parts, k)
                h == LastOfKind(listing, "header", 0, i)
            IN /\ Field(records[k], "device") = JStr(FdiskLinePool[listing[i]].value[1])
               /\ h # 0 =>
                    /\ Field(records[k], "disk_path") =
                         JStr(FdiskLinePool[listing[h]].value[1])
                    /\ Field(records[k], "disk_size") =
                         JStr(FdiskLinePool[listing[h]].value[2])
                    /\ \A kind \in {"sector_size", "disklabel_type", "disk_identifier"} :
                         Field(records[k], kind) =
                           JStr(MetadataSince(listing, kind, h, i))

(***************************************************************************)
(* Field filtering of stored rows                                          *)
(***************************************************************************)
BookkeepingColumns == {"created_at", "artifact_type"}

\* the payloads the filter is promised for: an object, an array, or the
\* output of a command for a raw-data type
FilteredPayload(f) == IsDict(Files[f].data) \/ IsList(Files[f].data) \/ IsRawFile(f)

\* C24: every stored row of a file whose type has an entry in FIELD_FILTERS
\* has only columns among the type's allowed fields, created_at and
\* artifact_type, whether the file holds an object, an array or raw text.
C24_StoredRowsAreFiltered ==
  \A x \in RowIds(tables) :
    LET row == tables[x[1]].rows[x[2]]
        artifact_type == FileType[row.src[1]]
    IN (DictHas(FIELD_FILTERS, artifact_type) /\ FilteredPayload(row.src[1])) =>
         DictKeys(row.rec) \subseteq
           {get_allowed_fields(artifact_type)[i] :
              i \in 1..Len(get_allowed_fields(artifact_type))} \cup BookkeepingColumns


\* the record the raw-text parser made for a stored row of a raw-data file
ParsedRecord(row) == ParsedOf(row.src[1]).records[row.src[2]]

\* C25: for every raw-data artifact type every field the raw-text parser
\* emits survives to the stored row: each key of the parser's record is a
\* key of the row with the parser's value, so a row stored for a
\* connectionTracking file holds its source line in raw_line.
C25_ParserFieldsSurvive ==
  \A x \in RowIds(tables) :
    LET row == tables[x[1]].rows[x[2]]
    IN IsRawFile(row.src[1]) =>
         \A key \in DictKeys(ParsedRecord(row)) :
           /\ DictHas(row.rec, key)
           /\ DictGet(row.rec, key) = PrepareValue(DictGet(ParsedRecord(row), key))


\* s.upper() on ASCII text
UpperChar(c) ==
  IF \E i \in 1..26 : LowerCase[i] = c
  THEN UpperCase[CHOOSE i \in 1..26 : LowerCase[i] = c]
  ELSE c

RECURSIVE Upper(_)
Upper(s) == IF s = "" THEN "" ELSE UpperChar(CharAt(s, 1)) \o Upper(DropFirst(s, 1))

\* the file named after an artifact type, as written, in lower case and in
\* upper case
OwnNames(artifact_type) ==
  {artifact_type \o ".json", Lower(artifact_type \o ".json"),
   Upper(artifact_type \o ".json")}

\* the arguments are filename, data and the type the file is named after
OwnNameInit ==
  /\ Idle
  /\ applied \in
       UNION {{Drawn("_determine_artifact_type",
                     <<x[1], x[2], supported_artifacts[t][1]>>, "") :
                 x \in OwnNames(supported_artifacts[t][1]) \X ClassifyData} :
              t \in 1..Len(supported_artifacts)}

OwnNameSpec == OwnNameInit /\ [][Classify]_vars

\* C26: every supported artifact type is reachable under its own name: a
\* file named '<T>.json', in any letter case, is classified as T whatever
\* its JSON content.
C26_OwnNameClassifiesAsType ==
  (applied.fn = "_determine_artifact_type" /\ applied.n > 0 /\ Len(applied.args) = 3)
    => applied.value = applied.args[3]


\* values of every kind the normalizer tells apart: strings up to one
\* character past MaxTextLen, arrays and objects whose JSON text is short
\* or longer than MaxTextLen, a datetime, null, a boolean and a number
MixedValues ==
  <<JStr("v"), JStr(Repeat("a", MaxTextLen)), JStr(Repeat("a", MaxTextLen) \o "b"),
    JList(<<JNum(1)>>), JList(<<JStr(Repeat("a", MaxTextLen))>>),
    Obj1("k", JStr(Repeat("a", MaxTextLen))), <<"datetime">>, JNull, JBool(TRUE), JNum(7)>>

\* the record holding the chosen values under the first keys of keys
MixedRecord(keys, choice) == [i \in 1..Len(choice) |-> <<keys[i], MixedValues[choice[i]]>>]

\* records of up to two keys, under a type with a registry entry that allows
\* the keys and under a type without an entry
MixedInit ==
  /\ Idle
  /\ applied \in
       {Drawn("_prepare_record_for_insertion",
              <<MixedRecord(x[1][2], x[2]), x[1][1]>>, <<>>) :
          x \in {<<"arpCache", <<"ip_address", "mac_address">> >>,
                 <<"unknown", <<"pid", "command">> >>}
                \X (UNION {[1..n -> 1..Len(MixedValues)] : n \in 1..2})}

MixedSpec == MixedInit /\ [][Prepare]_vars

\* the text values of a record
TextValues(rec) == {rec[i][2] : i \in {j \in 1..Len(rec) : IsStr(rec[j][2])}}

\* C28: every text value of a record returned by
\* _prepare_record_for_insertion is at most 10,000 characters long, whatever
\* the type of the input value.
C28_AllTextBounded ==
  (applied.fn = "_prepare_record_for_insertion" /\ applied.n = 1) =>
    \A w \in TextValues(applied.value) : Len(w[2]) <= MaxTextLen

\* C28 as amended: every text value that _prepare_record_for_insertion
\* returns for a string input value is the first 10,000 characters of that
\* string, so at most 10,000 characters long; the text returned for a
\* nested object or array is its whole JSON text and the text returned for
\* a value of any other type its whole string form, of any length.
C28_StringInputsBounded ==
  (applied.fn = "_prepare_record_for_insertion" /\ applied.n = 1) =>
    /\ DictKeys(applied.value) = DictKeys(applied.args[1])
    /\ \A k \in DictKeys(applied.value) :
         LET v == DictGet(applied.args[1], k)
             w == DictGet(applied.value, k)
         IN /\ IsStr(v) =>
                 /\ IsStr(w)
                 /\ Len(w[2]) <= MaxTextLen
                 /\ Len(w[2]) = (IF Len(v[2]) > MaxTextLen THEN MaxTextLen ELSE Len(v[2]))
                 /\ w[2] = SubSeq(v[2], 1, Len(w[2]))
            /\ (IsList(v) \/ IsDict(v)) =>
                 w = JStr(Dumps(v))
            /\ Tag(v) = "datetime" => w = JStr(DatetimeText)

\* a record with a string one character past MaxTextLen and an array
\* holding a string of MaxTextLen characters was normalized: the string
\* came back MaxTextLen long, the array as a text longer than that
C28_Witness ==
  /\ applied.fn = "_prepare_record_for_insertion"
  /\ applied.n = 1
  /\ applied.args[1] = << <<"ip_address", JStr(Repeat("a", MaxTextLen) \o "b")>>,
                          <<"mac_address", JList(<<JStr(Repeat("a", MaxTextLen))>>)>> >>
  /\ Len(DictGet(applied.value, "ip_address")[2]) = MaxTextLen
  /\ Len(DictGet(applied.value, "mac_address")[2]) > MaxTextLen


\* C27: a failed result means nothing was stored: whenever process_file
\* returns success = false, stats.inserted_records is 0 and the call has
\* committed no row.
C27_FailedStoresNothing ==
  [][(result'.ran /\ ~result'.success) =>
       /\ result'.stats.inserted_records = 0
       /\ NewRows(tables, tables') = {}]_vars

\* the file is an array of a type that goes through _process_list_data
ListFile(f) == PlainFile(f) /\ IsList(Files[f].data)

\* C27 as amended: whenever process_file returns success = false,
\* stats.inserted_records is the number of rows the call has committed, all
\* of them rows of that file, and the rows stored before stay as they were;
\* the number is 0 unless the file is an array handled record by record, for
\* which the rows inserted before or after a failed or skipped element stay
\* committed.
C27_FailedCountsWhatWasStored ==
  [][(result'.ran /\ ~result'.success) =>
       /\ KeepsRows(tables, tables')
       /\ Cardinality(NewRows(tables, tables')) = result'.stats.inserted_records
       /\ \A x \in NewRows(tables, tables') :
            tables'[x[1]].rows[x[2]].src[1] = result'.file
       /\ ~ListFile(result'.file) => result'.stats.inserted_records = 0]_vars

\* process_file returned success = false for an array of which one record
\* failed to insert and another is stored
C27_Witness ==
  /\ result.ran
  /\ ~result.success
  /\ ListFile(result.file)
  /\ result.stats.inserted_records >= 1
  /\ result.stats.errors >= 1
  /\ Cardinality({x \in RowIds(tables) : tables[x[1]].rows[x[2]].src[1] = result.file})
       >= result.stats.inserted_records


\* C29: no log entry is left in flight: once start_ingestion_task or
\* retry_failed_ingestion has returned, with any result and also after a
\* storage error, the log entry it created or reset has status success or
\* failed, never pending or processing.  Every entry of logs was created or
\* reset by a call that has returned.
C29_NoLogLeftInFlight ==
  \A i \in 1..Len(logs) : logs[i].status \in {"success", "failed"}


\* the table the files of a supported type are stored in
TableOfFile(f) == DictGet(supported_artifacts, FileType[f])

\* the files of valid JSON and supported type
StorableFiles == {f \in FileIds : Files[f].valid /\ DictHas(supported_artifacts, FileType[f])}

\* one case with its namespace, as create_case leaves it
OrderCases == <<NewCase("0b-02", SchemaNameFor("0a-01"))>>

OrderSchemas == {SchemaNameFor("0a-01")}

\* process_file on the files of order, one after the other, for the case of
\* OrderCases, no INSERT failing for a reason outside the files: tables is
\* the store after the last file, stats the stats returned for each file
RECURSIVE IngestInOrder(_, _)
IngestInOrder(tbls, order) ==
  IF order = <<>> THEN [tables |-> tbls, stats |-> <<>>]
  ELSE Bind(process_file(tbls, OrderSchemas, OrderCases, order[1], "0b-02", <<>>),
            LAMBDA pf :
              Bind(IngestInOrder(pf.tables, Tail(order)),
                   LAMBDA rest :
                     [tables |-> rest.tables,
                      stats |-> <<[file |-> order[1],
                                   inserted_records |-> pf.stats.inserted_records,
                                   errors |-> pf.stats.errors]>> \o rest.stats]))

\* the store before the two files: empty, or holding the rows of a file
\* stored in the same table
StoreBefore(before) ==
  IF before = 0 THEN <<>> ELSE IngestInOrder(<<>>, <<before>>).tables

\* what a store holds apart from the positions of its rows: the columns of
\* each table and its rows as a set
Stored(tbls) ==
  [p \in DOMAIN tbls |->
     [cols |-> tbls[p].cols,
      count |-> Len(tbls[p].rows),
      rows |-> {tbls[p].rows[i] : i \in 1..Len(tbls[p].rows)}]]

\* the columns of each table of a store
ColumnsOf(tbls) == [p \in DOMAIN tbls |-> tbls[p].cols]

\* the arguments are a file ingested beforehand (0 for none) and the two
\* files A and B, all three stored in the same table
OrderInit ==
  /\ Idle
  /\ applied \in
       {Drawn("process_file", <<x[1], x[2], x[3]>>, <<>>) :
          x \in {y \in (StorableFiles \cup {0}) \X StorableFiles \X StorableFiles :
                   /\ y[2] # y[3]
                   /\ TableOfFile(y[2]) = TableOfFile(y[3])
                   /\ y[1] # 0 => TableOfFile(y[1]) = TableOfFile(y[2])}}

\* process_file on A then B, and on B then A, from the same store
IngestBothOrders ==
  /\ applied.fn = "process_file"
  /\ applied.n < MaxCalls
  /\ applied' = [applied EXCEPT
                   !.n = @ + 1,
                   !.value = [ab |-> IngestInOrder(StoreBefore(applied.args[1]),
                                                   <<applied.args[2], applied.args[3]>>),
                              ba |-> IngestInOrder(StoreBefore(applied.args[1]),
                                                   <<applied.args[3], applied.args[2]>>)]]
  /\ UNCHANGED Rest

OrderSpec == OrderInit /\ [][IngestBothOrders]_vars

\* both orders stored the same rows and returned the same stats for each file
SameOutcome(ab, ba) ==
  /\ Stored(ab.tables) = Stored(ba.tables)
  /\ {ab.stats[i] : i \in 1..Len(ab.stats)} = {ba.stats[i] : i \in 1..Len(ba.stats)}

====
